---- MODULE Spec2Model ----
(***************************************************************************)
(* Model of the template placeholder engine of glr-analysis                *)
(* (modules/template_processor.py) and of the validator fallback           *)
(* (modules/llm_validator.py).                                             *)
(*                                                                         *)
(* Text is a sequence of one-character strings.  A document is the tree    *)
(* python-docx exposes to the code: stories (the body and the header and   *)
(* footer parts), each with its paragraphs and its table-cell paragraphs,  *)
(* a paragraph being a sequence of runs (text and formatting), and the     *)
(* sections, each naming the header and footer part it shows (a section    *)
(* linked to the previous one shows the previous section's part).          *)
(***************************************************************************)
EXTENDS Integers, Sequences, FiniteSets, TLC

VARIABLES
    template,      \* the document as loaded (load_template), never mutated
    doc,           \* the document tree fill_docx_template mutates in place
    mapping,       \* the field mapping: a sequence of [key, value] (dict order)
    fills,         \* number of fill_docx_template calls made on doc
    prevDoc,       \* doc as it was before the last fill_docx_template call
    visits,        \* the paragraph visits of the last fill call, in order
    placeholders,  \* result of the last extract_placeholders call
    scanned,       \* whether placeholders holds the scan of the current doc
    pkgIn,         \* the archive handed to the last raw-package call
    pkg,           \* the archive the last raw-package call returned
    rawCalls,      \* number of raw-package calls made
    rawRaised,     \* whether the last raw-package call raised
    validations,   \* log of validate_filled_docx_bytes calls
    serviceCalls,  \* number of calls made to the external validation service
    edits,         \* the edit mapping handed to apply_text_edits_to_docx_bytes
    normalized,    \* the mapping apply_text_edits_to_docx_bytes handed to the raw pass
    ocrPc,         \* where extract_text_from_image stands
    attempt,       \* its loop variable
    last_exc,      \* its last_exc
    ocrLog,        \* what it did so far: remote calls, sleeps, local fallbacks
    ocrResult,     \* what it returned, or the message it raised
    appPc,         \* where the process_btn handler stands
    runs,          \* number of processing runs started
    steps,         \* the steps the current run executed, in order
    final_docx,    \* st.session_state.final_docx
    validation,    \* st.session_state.validation
    shown,         \* the boxes the current run showed: errors and warnings
    mapperPc,      \* where map_placeholders_to_values stands
    reply,         \* response.text of the mapping collaborator's last reply
    asks,          \* number of generate_content calls map_placeholders_to_values made
    mapped         \* what its calls returned or raised, in order

editVars == <<edits, normalized>>

ocrVars == <<ocrPc, attempt, last_exc, ocrLog, ocrResult>>

appVars == <<appPc, runs, steps, final_docx, validation, shown>>

mapperVars == <<mapperPc, reply, asks, mapped>>

vars == <<template, doc, mapping, fills, prevDoc, visits, placeholders, scanned,
          pkgIn, pkg, rawCalls, rawRaised, validations, serviceCalls,
          editVars, ocrVars, appVars, mapperVars>>

\* The state of the components a specification does not run
NoEdits == edits = <<>> /\ normalized = <<>>

NoOcr ==
    /\ ocrPc = "idle" /\ attempt = 0 /\ last_exc = "None"
    /\ ocrLog = <<>> /\ ocrResult = "None"

NoMapper == mapperPc = "idle" /\ reply = <<>> /\ asks = 0 /\ mapped = <<>>

\* final_docx and validation are <<>> while the session holds None for them
NoApp ==
    /\ appPc = "idle" /\ runs = 0 /\ steps = <<>>
    /\ final_docx = <<>> /\ validation = <<>> /\ shown = <<>>

(***************************************************************************)
(* Bounds of the model.                                                    *)
(***************************************************************************)
MaxRuns == 3
MaxFills == 2
MaxRawCalls == 2
MaxValidations == 2
MaxPresses == 2
MaxMapperCalls == 2

(***************************************************************************)
(* Characters and Python's string operations.                              *)
(***************************************************************************)
Whitespace == {" ", "\t"}

\* Code point of a character (the order Python's sorted() compares by).
Ord(c) ==
    CASE c = "\t" -> 9
      [] c = " " -> 32
      [] c = "A" -> 65
      [] c = "B" -> 66
      [] c = "C" -> 67
      [] c = "[" -> 91
      [] c = "\\" -> 92
      [] c = "]" -> 93
      [] c = "u" -> 117
      [] c = "v" -> 118
      [] c = "w" -> 119
      [] c = "x" -> 120
      [] c = "{" -> 123
      [] c = "}" -> 125
      [] OTHER -> 60

\* s[i..] starts with t (i is 1-based)
StartsAt(s, t, i) ==
    /\ i >= 1
    /\ i + Len(t) - 1 <= Len(s)
    /\ \A j \in 1..Len(t) : s[i + j - 1] = t[j]

\* Python: t in s
Contains(s, t) == \E i \in 1..(Len(s) - Len(t) + 1) : StartsAt(s, t, i)

\* Python: s.startswith(t), s.endswith(t)
StartsWith(s, t) == StartsAt(s, t, 1)
EndsWith(s, t) == Len(t) <= Len(s) /\ StartsAt(s, t, Len(s) - Len(t) + 1)

RECURSIVE ReplaceFrom(_, _, _, _)
ReplaceFrom(s, old, new, i) ==
    IF i > Len(s) THEN <<>>
    ELSE IF StartsAt(s, old, i)
         THEN new \o ReplaceFrom(s, old, new, i + Len(old))
         ELSE <<s[i]>> \o ReplaceFrom(s, old, new, i + 1)

\* Python: s.replace(old, new) for a non-empty old: every non-overlapping
\* occurrence, found left to right, in one pass.
Replace(s, old, new) == ReplaceFrom(s, old, new, 1)

RECURSIVE LStrip(_)
LStrip(s) == IF s # <<>> /\ Head(s) \in Whitespace THEN LStrip(Tail(s)) ELSE s

RECURSIVE RStrip(_)
RStrip(s) ==
    IF s # <<>> /\ s[Len(s)] \in Whitespace
    THEN RStrip(SubSeq(s, 1, Len(s) - 1))
    ELSE s

\* Python: s.strip()
Strip(s) == RStrip(LStrip(s))

\* Strict lexicographic order of two strings by code point (Python's <).
RECURSIVE StrLess(_, _)
StrLess(a, b) ==
    IF b = <<>> THEN FALSE
    ELSE IF a = <<>> THEN TRUE
    ELSE IF Ord(Head(a)) # Ord(Head(b)) THEN Ord(Head(a)) < Ord(Head(b))
    ELSE StrLess(Tail(a), Tail(b))

(***************************************************************************)
(* The placeholder scanner: extract_placeholders.                          *)
(***************************************************************************)
\* First position j >= i where t starts in s, or 0 when there is none.
RECURSIVE FindFrom(_, _, _)
FindFrom(s, t, i) ==
    IF i + Len(t) - 1 > Len(s) THEN 0
    ELSE IF StartsAt(s, t, i) THEN i
    ELSE FindFrom(s, t, i + 1)

\* re.compile(r"{{(.*?)}}|\[(.*?)\]").findall(text) from position i: the
\* list of (a, b) group pairs of the non-overlapping matches, left to right;
\* a group that took no part in the match is the empty string.
RECURSIVE FindAllFrom(_, _)
FindAllFrom(text, i) ==
    IF i > Len(text) THEN <<>>
    ELSE LET closeC == IF StartsAt(text, <<"{", "{">>, i)
                       THEN FindFrom(text, <<"}", "}">>, i + 2) ELSE 0
             closeB == IF text[i] = "[" THEN FindFrom(text, <<"]">>, i + 1) ELSE 0
         IN  IF closeC # 0
             THEN <<[a |-> SubSeq(text, i + 2, closeC - 1), b |-> <<>>]>>
                  \o FindAllFrom(text, closeC + 2)
             ELSE IF closeB # 0
             THEN <<[a |-> <<>>, b |-> SubSeq(text, i + 1, closeB - 1)]>>
                  \o FindAllFrom(text, closeB + 1)
             ELSE FindAllFrom(text, i + 1)

placeholder_pattern_findall(text) == FindAllFrom(text, 1)

\* name = (a or b); placeholders.add(name.strip())
\* Sensitivity variant of MatchName: the captured name kept untrimmed
MatchName_untrimmed(m) == IF m.a # <<>> THEN m.a ELSE m.b

MatchName(m) == Strip(IF m.a # <<>> THEN m.a ELSE m.b)

ScanText(text) ==
    LET ms == placeholder_pattern_findall(text)
    IN  {MatchName(ms[i]) : i \in 1..Len(ms)}

\* Python: sorted(list(S)) for a set of strings
RECURSIVE SortedList(_)
SortedList(S) ==
    IF S = {} THEN <<>>
    ELSE LET m == CHOOSE x \in S : \A y \in S \ {x} : StrLess(x, y)
         IN  <<m>> \o SortedList(S \ {m})

RECURSIVE Concat(_)
Concat(ss) == IF ss = <<>> THEN <<>> ELSE Head(ss) \o Concat(Tail(ss))

\* paragraph.text: the run texts concatenated in order
ParaText(p) == Concat([i \in 1..Len(p) |-> p[i].text])

\* The (story, part) pairs fill_docx_template and extract_placeholders walk,
\* in order: body paragraphs, body table cells, then per section the header's
\* paragraphs and cells and the footer's paragraphs and cells.
\* Sensitivity variant of SectionWalk: the sections' footers left out
SectionWalk_without_footers(secs) ==
    Concat([n \in 1..Len(secs) |->
              << [story |-> secs[n].header, part |-> "paras"],
                 [story |-> secs[n].header, part |-> "cells"] >>])

RECURSIVE SectionWalk(_)
SectionWalk(secs) ==
    IF secs = <<>> THEN <<>>
    ELSE << [story |-> Head(secs).header, part |-> "paras"],
            [story |-> Head(secs).header, part |-> "cells"],
            [story |-> Head(secs).footer, part |-> "paras"],
            [story |-> Head(secs).footer, part |-> "cells"] >>
         \o SectionWalk(Tail(secs))

Walk(d) ==
    << [story |-> 1, part |-> "paras"], [story |-> 1, part |-> "cells"] >>
    \o SectionWalk(d.sections)

PartParas(d, w) ==
    IF w.part = "paras" THEN d.stories[w.story].paras ELSE d.stories[w.story].cells

extract_placeholders(d) ==
    LET ws == Walk(d)
    IN  SortedList(UNION { UNION { ScanText(ParaText(PartParas(d, ws[n])[i]))
                                   : i \in 1..Len(PartParas(d, ws[n])) }
                           : n \in 1..Len(ws) })

(***************************************************************************)
(* The substitution engine: fill_docx_template.                            *)
(***************************************************************************)
\* Formatting of a run.  "other" stands for the run properties the engine
\* never reads (strike, highlight, ...).
PlainFmt ==
    [bold |-> "None", italic |-> "None", underline |-> "None", style |-> "Default",
     size |-> "None", name |-> "None", color |-> "None", other |-> "None"]

RichFmt ==
    [bold |-> "True", italic |-> "False", underline |-> "True", style |-> "Emphasis",
     size |-> "12pt", name |-> "Arial", color |-> "FF0000", other |-> "strike"]

\* paragraph.add_run(text): a new run without run properties
add_run(text) == [text |-> text, fmt |-> PlainFmt]

\* The four token variants of key k: {{k}}, {{ k }}, [k], [ k ]
placeholder_c(k) == <<"{", "{">> \o k \o <<"}", "}">>
placeholder_c_spaced(k) == <<"{", "{", " ">> \o k \o <<" ", "}", "}">>
placeholder_b(k) == <<"[">> \o k \o <<"]">>
placeholder_b_spaced(k) == <<"[", " ">> \o k \o <<" ", "]">>

Variants(k) ==
    {placeholder_c(k), placeholder_c_spaced(k), placeholder_b(k), placeholder_b_spaced(k)}

HasVariant(text, k) == \E t \in Variants(k) : Contains(text, t)

\* The four str.replace calls made for one key, in the code's order.
ReplaceVariants(text, k, v) ==
    Replace(Replace(Replace(Replace(text, placeholder_c(k), v),
                            placeholder_c_spaced(k), v),
                    placeholder_b(k), v),
            placeholder_b_spaced(k), v)

\* The fast path's loop over mapping.items() for one run, from entry n on.
RECURSIVE RunLoop(_, _, _, _)
RunLoop(run_text, run_changed, m, n) ==
    IF n > Len(m) THEN [text |-> run_text, changed |-> run_changed]
    ELSE LET k == Strip(m[n].key)
         IN  IF HasVariant(run_text, k)
             THEN RunLoop(ReplaceVariants(run_text, k, m[n].value), TRUE, m, n + 1)
             ELSE RunLoop(run_text, run_changed, m, n + 1)

\* The fallback's loop over mapping.items() on the assembled text.
RECURSIVE TextLoop(_, _, _)
TextLoop(text, m, n) ==
    IF n > Len(m) THEN text
    ELSE TextLoop(ReplaceVariants(text, Strip(m[n].key), m[n].value), m, n + 1)

\* Sensitivity variant of RebuiltFmt: the rebuilt run keeps add_run's formatting
RebuiltFmt_not_copied(first) == PlainFmt

\* The formatting the fallback gives the rebuilt run from the first run.
RebuiltFmt(first) ==
    [bold |-> first.bold, italic |-> first.italic, underline |-> first.underline,
     style |-> first.style,
     size |-> IF first.size # "None" THEN first.size ELSE PlainFmt.size,
     name |-> IF first.name # "None" THEN first.name ELSE PlainFmt.name,
     color |-> IF first.color # "None" THEN first.color ELSE PlainFmt.color,
     other |-> PlainFmt.other]

\* Sensitivity variant of FastPath: a changed run is written as a new plain run
FastPath_new_plain_run(p, m) ==
    LET res == [i \in 1..Len(p) |-> RunLoop(p[i].text, FALSE, m, 1)]
    IN  [runs |-> [i \in 1..Len(p) |->
                      IF res[i].changed THEN add_run(res[i].text) ELSE p[i]],
         replaced_in_runs |-> \E i \in 1..Len(p) : res[i].changed]

FastPath(p, m) ==
    LET res == [i \in 1..Len(p) |-> RunLoop(p[i].text, FALSE, m, 1)]
    IN  [runs |-> [i \in 1..Len(p) |->
                      IF res[i].changed THEN [p[i] EXCEPT !.text = res[i].text]
                      ELSE p[i]],
         replaced_in_runs |-> \E i \in 1..Len(p) : res[i].changed]

\* Sensitivity variant of Fallback: no early return on an unchanged text
Fallback_always_rebuilds(p, m) ==
    LET replaced_text == TextLoop(ParaText(p), m, 1)
    IN  IF p = <<>> THEN [runs |-> <<add_run(replaced_text)>>, path |-> "fallback"]
        ELSE [runs |-> <<[text |-> replaced_text, fmt |-> RebuiltFmt(p[1].fmt)]>>,
              path |-> "fallback"]

Fallback(p, m) ==
    LET original_text == ParaText(p)
        replaced_text == TextLoop(original_text, m, 1)
    IN  IF replaced_text = original_text THEN [runs |-> p, path |-> "none"]
        ELSE IF p = <<>> THEN [runs |-> <<add_run(replaced_text)>>, path |-> "fallback"]
        ELSE [runs |-> <<[text |-> replaced_text, fmt |-> RebuiltFmt(p[1].fmt)]>>,
              path |-> "fallback"]

\* Sensitivity variant of replace_paragraph_placeholders: no fallback path
replace_paragraph_placeholders_fast_only(p, m) ==
    LET fast == FastPath(p, m)
    IN  IF fast.replaced_in_runs THEN [runs |-> fast.runs, path |-> "fast"]
        ELSE [runs |-> p, path |-> "none"]

\* Sensitivity variant of replace_paragraph_placeholders: no early return
\* after the fast path, the fallback runs on what the fast path left
replace_paragraph_placeholders_both_passes(p, m) ==
    LET fast == FastPath(p, m)
        rest == Fallback(fast.runs, m)
    IN  IF rest.path = "fallback" THEN rest
        ELSE IF fast.replaced_in_runs THEN [runs |-> fast.runs, path |-> "fast"]
        ELSE rest

\* One call of replace_paragraph_placeholders: the paragraph's runs afterwards
\* and the pass that changed it.
replace_paragraph_placeholders(p, m) ==
    LET fast == FastPath(p, m)
    IN  IF fast.replaced_in_runs THEN [runs |-> fast.runs, path |-> "fast"]
        ELSE Fallback(p, m)

\* The loop over the paragraphs of one (story, part), from paragraph i on.
RECURSIVE FillPart(_, _, _, _)
FillPart(st, w, m, i) ==
    LET ps == PartParas(st.doc, w)
    IN  IF i > Len(ps) THEN st
        ELSE LET r == replace_paragraph_placeholders(ps[i], m)
                 d2 == IF w.part = "paras"
                       THEN [st.doc EXCEPT !.stories[w.story].paras[i] = r.runs]
                       ELSE [st.doc EXCEPT !.stories[w.story].cells[i] = r.runs]
                 v  == [story |-> w.story, part |-> w.part, idx |-> i, path |-> r.path]
             IN  FillPart([doc |-> d2, visits |-> Append(st.visits, v)], w, m, i + 1)

RECURSIVE FillWalk(_, _, _)
FillWalk(st, ws, m) ==
    IF ws = <<>> THEN st
    ELSE FillWalk(FillPart(st, Head(ws), m, 1), Tail(ws), m)

\* fill_docx_template(doc, mapping): the document afterwards, with the visits made.
fill_docx_template(d, m) == FillWalk([doc |-> d, visits |-> <<>>], Walk(d), m)

(***************************************************************************)
(* The raw-package pass: _xml_replace_in_docx_bytes.                       *)
(*                                                                         *)
(* An archive is a sequence of entries [name, decodable, data]; a name is  *)
(* a sequence of path pieces, data a sequence of characters and markup     *)
(* symbols ("<w:r>", ...).  decodable says whether data.decode('utf-8')    *)
(* succeeds.                                                               *)
(***************************************************************************)
RECURSIVE SkipSpace(_, _)
SkipSpace(text, i) ==
    IF i <= Len(text) /\ text[i] \in Whitespace THEN SkipSpace(text, i + 1) ELSE i

\* re.match of  open \s* re.escape(k) \s* close  at position i: the position
\* after the match, or 0.  k is stripped, so the greedy \s* never has to give
\* a character back.
MatchEnd(text, open, close, k, i) ==
    IF ~StartsAt(text, open, i) THEN 0
    ELSE LET j == SkipSpace(text, i + Len(open))
         IN  IF ~StartsAt(text, k, j) THEN 0
             ELSE LET j2 == SkipSpace(text, j + Len(k))
                  IN  IF StartsAt(text, close, j2) THEN j2 + Len(close) ELSE 0

RECURSIVE SubFrom(_, _, _, _, _, _)
SubFrom(text, open, close, k, repl, i) ==
    IF i > Len(text) THEN <<>>
    ELSE LET e == MatchEnd(text, open, close, k, i)
         IN  IF e # 0 THEN repl \o SubFrom(text, open, close, k, repl, e)
             ELSE <<text[i]>> \o SubFrom(text, open, close, k, repl, i + 1)

EscapeLetters == {"a", "b", "f", "n", "r", "t", "v"}
AsciiLetters == {"A", "B", "C", "g", "u", "w", "x"} \cup EscapeLetters
Digits == {"0", "1"}

\* The control character a template escape stands for.
EscapeChar(c) == IF c = "t" THEN "\t" ELSE IF c = "n" THEN "\n" ELSE "<ctl>"

\* re.sub's reading of the replacement string v as a template, from position i
\* (the patterns here have no groups): [ok, text], ok FALSE when re raises.
RECURSIVE TemplateFrom(_, _)
TemplateFrom(v, i) ==
    IF i > Len(v) THEN [ok |-> TRUE, text |-> <<>>]
    ELSE IF v[i] # "\\"
    THEN LET r == TemplateFrom(v, i + 1)
         IN  [ok |-> r.ok, text |-> <<v[i]>> \o r.text]
    ELSE IF i = Len(v) THEN [ok |-> FALSE, text |-> <<>>]
    ELSE LET c == v[i + 1]
             r == TemplateFrom(v, i + 2)
         IN  IF c = "\\" THEN [ok |-> r.ok, text |-> <<"\\">> \o r.text]
             ELSE IF c \in EscapeLetters
             THEN [ok |-> r.ok, text |-> <<EscapeChar(c)>> \o r.text]
             ELSE IF c \in AsciiLetters \cup Digits THEN [ok |-> FALSE, text |-> <<>>]
             ELSE [ok |-> r.ok, text |-> <<"\\", c>> \o r.text]

\* re.sub(open \s* k \s* close, v, text): [ok, text]
re_sub(text, open, close, k, v) ==
    LET t == TemplateFrom(v, 1)
    IN  IF ~t.ok THEN [ok |-> FALSE, text |-> text]
        ELSE [ok |-> TRUE, text |-> SubFrom(text, open, close, k, t.text, 1)]

\* The loop over mapping.items() on one entry's text, from entry n on.
RECURSIVE XmlLoop(_, _, _)
XmlLoop(text, m, n) ==
    IF n > Len(m) THEN [ok |-> TRUE, text |-> text]
    ELSE LET k == Strip(m[n].key)
             c == re_sub(text, <<"{", "{">>, <<"}", "}">>, k, m[n].value)
             b == re_sub(c.text, <<"[">>, <<"]">>, k, m[n].value)
         IN  IF ~c.ok \/ ~b.ok THEN [ok |-> FALSE, text |-> text]
             ELSE XmlLoop(b.text, m, n + 1)

\* Sensitivity variant of IsWordXml: the test on the word/ prefix left out
IsWordXml_any_folder(name) == EndsWith(name, <<".xml">>)

\* item.filename.startswith('word/') and item.filename.endswith('.xml')
IsWordXml(name) == StartsWith(name, <<"word/">>) /\ EndsWith(name, <<".xml">>)

\* What the pass writes for one entry: [ok, entry]
ReplaceEntry(e, m) ==
    IF IsWordXml(e.name)
    THEN IF ~e.decodable THEN [ok |-> TRUE, entry |-> e]
         ELSE LET r == XmlLoop(e.data, m, 1)
              IN  [ok |-> r.ok, entry |-> [e EXCEPT !.data = r.text]]
    ELSE [ok |-> TRUE, entry |-> e]

\* _xml_replace_in_docx_bytes(docx_bytes, mapping): [ok, pkg]; ok FALSE when
\* the call raises (re.sub rejects a replacement string).
xml_replace_in_docx_bytes(a, m) ==
    LET rs == [i \in 1..Len(a) |-> ReplaceEntry(a[i], m)]
    IN  [ok |-> \A i \in 1..Len(a) : rs[i].ok,
         pkg |-> [i \in 1..Len(a) |-> rs[i].entry]]

(***************************************************************************)
(* apply_text_edits_to_docx_bytes: the edit keys normalised, then the raw  *)
(* pass.  A dict is a sequence of [key, value] with distinct keys, in      *)
(* insertion order.                                                        *)
(***************************************************************************)
Wrapped(key, open, close) == StartsWith(key, open) /\ EndsWith(key, close)

\* Sensitivity variant of NormalizeKey: the second test an elif
NormalizeKey_elif(k) ==
    LET key == Strip(k)
    IN  IF Wrapped(key, <<"{", "{">>, <<"}", "}">>)
        THEN Strip(SubSeq(key, 3, Len(key) - 2))
        ELSE IF Wrapped(key, <<"[">>, <<"]">>)
        THEN Strip(SubSeq(key, 2, Len(key) - 1))
        ELSE key

\* Sensitivity variant of NormalizeKey: no strip after the delimiters are cut
NormalizeKey_unstripped(k) ==
    LET key == Strip(k)
        key2 == IF Wrapped(key, <<"{", "{">>, <<"}", "}">>)
                THEN SubSeq(key, 3, Len(key) - 2) ELSE key
    IN  IF Wrapped(key2, <<"[">>, <<"]">>) THEN SubSeq(key2, 2, Len(key2) - 1) ELSE key2

\* The loop body on one key: key = str(k).strip(), then the two ifs in turn
NormalizeKey(k) ==
    LET key == Strip(k)
        key2 == IF Wrapped(key, <<"{", "{">>, <<"}", "}">>)
                THEN Strip(SubSeq(key, 3, Len(key) - 2)) ELSE key
    IN  IF Wrapped(key2, <<"[">>, <<"]">>)
        THEN Strip(SubSeq(key2, 2, Len(key2) - 1)) ELSE key2

\* d[k] = v on a dict: the value replaced in place, or a new last entry
DictSet(d, k, v) ==
    IF \E i \in 1..Len(d) : d[i].key = k
    THEN [i \in 1..Len(d) |-> IF d[i].key = k THEN [key |-> k, value |-> v] ELSE d[i]]
    ELSE Append(d, [key |-> k, value |-> v])

\* normalized after the loop over edits.items() from entry n on
RECURSIVE NormalizeFrom(_, _, _)
NormalizeFrom(es, n, acc) ==
    IF n > Len(es) THEN acc
    ELSE NormalizeFrom(es, n + 1, DictSet(acc, NormalizeKey(es[n].key), es[n].value))

\* apply_text_edits_to_docx_bytes(docx_bytes, edits): [normalized, ok, pkg]
apply_text_edits_to_docx_bytes(a, es) ==
    LET norm == NormalizeFrom(es, 1, <<>>)
        r == xml_replace_in_docx_bytes(a, norm)
    IN  [normalized |-> norm, ok |-> r.ok, pkg |-> r.pkg]

(***************************************************************************)
(* Serialisation (Document.save) and save_document.                        *)
(***************************************************************************)
\* The characters of a run's text as they stand in the part's XML: a tab is
\* the element <w:tab/>.
TextXml(text) == [i \in 1..Len(text) |-> IF text[i] = "\t" THEN "<w:tab/>" ELSE text[i]]

RunXml(r) ==
    <<"<w:r>">> \o (IF r.fmt # PlainFmt THEN <<"<w:rPr>">> ELSE <<>>)
    \o <<"<w:t>">> \o TextXml(r.text) \o <<"</w:t>", "</w:r>">>

ParaXml(p) ==
    <<"<w:p>">> \o Concat([i \in 1..Len(p) |-> RunXml(p[i])]) \o <<"</w:p>">>

\* A story's XML: its paragraphs, its table cells, and the text boxes, whose
\* paragraphs python-docx's paragraphs and tables do not list.
StoryXml(st) ==
    Concat([i \in 1..Len(st.paras) |-> ParaXml(st.paras[i])])
    \o Concat([i \in 1..Len(st.cells) |->
                  <<"<w:tc>">> \o ParaXml(st.cells[i]) \o <<"</w:tc>">>])
    \o Concat([i \in 1..Len(st.shapes) |->
                  <<"<w:txbxContent>">> \o ParaXml(<<add_run(st.shapes[i])>>)
                  \o <<"</w:txbxContent>">>])

NumStr(i) == <<"1", "2", "3", "4", "5", "6">>[i]

StoryEntry(d, i) ==
    [name |-> IF d.stories[i].kind = "document" THEN <<"word/", "document", ".xml">>
              ELSE <<"word/", d.stories[i].kind, NumStr(i), ".xml">>,
     decodable |-> TRUE,
     data |-> StoryXml(d.stories[i])]

\* Document.save: the package as an archive, one entry per part; parts the
\* tree does not model (d.extras) are written as they were loaded.
Serialize(d) ==
    << [name |-> <<"[Content_Types]", ".xml">>, decodable |-> TRUE,
        data |-> <<"<Types>">>] >>
    \o [i \in 1..Len(d.stories) |-> StoryEntry(d, i)]
    \o d.extras

\* save_document(doc, mapping): [raw, final]
\* Sensitivity variant of save_document: no try around the raw pass, the
\* caller gets no bytes when it raises
save_document_without_try(d, m) ==
    LET raw == Serialize(d)
    IN  IF m # <<>>
        THEN LET r == xml_replace_in_docx_bytes(raw, m)
             IN  [raw |-> raw, final |-> IF r.ok THEN r.pkg ELSE <<>>, raised |-> ~r.ok]
        ELSE [raw |-> raw, final |-> raw, raised |-> FALSE]

save_document(d, m) ==
    LET raw == Serialize(d)
    IN  IF m # <<>>
        THEN LET r == xml_replace_in_docx_bytes(raw, m)
             IN  [raw |-> raw, final |-> IF r.ok THEN r.pkg ELSE raw, raised |-> ~r.ok]
        ELSE [raw |-> raw, final |-> raw, raised |-> FALSE]

(***************************************************************************)
(* The validator: validate_filled_docx_bytes.                              *)
(***************************************************************************)
\* api_key values: None, the empty string, a key the client accepts, a key
\* for which genai.Client raises.
ApiKeys == {"None", "", "key", "badkey"}

Falsy(api_key) == api_key \in {"None", ""}

\* client = genai.Client(api_key=api_key) if api_key else None, None as well
\* when the constructor raises
ClientIsNone(api_key) == Falsy(api_key) \/ api_key = "badkey"

\* What the external service can do on generate_content: raise, answer text
\* that is not JSON, answer JSON that is not an object, or answer an object
\* with or without a status.
ServiceOutcomes ==
    {"raise", "not_json", "not_object", "no_status", "ok", "modify", "placeholders_left"}

NoKeyResult ==
    [status |-> "error", issues |-> <<"No API key available for LLM validation.">>,
     suggested_mapping |-> <<>>, suggested_text_edits |-> <<>>]

FailedResult ==
    [status |-> "error", issues |-> <<"LLM validation failed">>,
     suggested_mapping |-> <<>>, suggested_text_edits |-> <<>>]

\* The result built from the parsed reply: parsed.get("status", "error"), ...
ParsedResult(outcome) ==
    [status |-> IF outcome = "no_status" THEN "error" ELSE outcome,
     issues |-> IF outcome \in {"ok", "no_status"} THEN <<>> ELSE <<"issue">>,
     suggested_mapping |-> IF outcome = "modify" THEN <<"override">> ELSE <<>>,
     suggested_text_edits |-> IF outcome = "modify" THEN <<"edit">> ELSE <<>>]

\* Sensitivity variant of validate_filled_docx_bytes: no return before the
\* service call when there is no client
validate_filled_docx_bytes_without_guard(doc_bytes, m, api_key, outcome) ==
    IF outcome \in {"raise", "not_json", "not_object"}
    THEN [result |-> FailedResult, called |-> TRUE]
    ELSE [result |-> ParsedResult(outcome), called |-> TRUE]

\* validate_filled_docx_bytes(doc_bytes, mapping, api_key) when the service,
\* if called, does `outcome`: [result, called]
validate_filled_docx_bytes(doc_bytes, m, api_key, outcome) ==
    IF ClientIsNone(api_key) THEN [result |-> NoKeyResult, called |-> FALSE]
    ELSE IF outcome \in {"raise", "not_json", "not_object"}
    THEN [result |-> FailedResult, called |-> TRUE]
    ELSE [result |-> ParsedResult(outcome), called |-> TRUE]

(***************************************************************************)
(* The inputs: documents, mappings, archives.                              *)
(***************************************************************************)
tokA == <<"[", "A", "]">>
tokB == <<"[", "B", "]">>
tokC == <<"[", "C", "]">>

\* Run texts the multi-run paragraphs are made of: whole tokens and the
\* pieces of split tokens.
Frag ==
    { tokA, <<"[", "B">>, <<"[">>, <<"]">>, <<"A">>, <<"{", "{">>, <<"}", "}">> }

\* Texts of the single-run paragraphs: the token variants, tokens with more
\* whitespace, tokens without a name, two tokens in one run.
WholeFrag ==
    { tokA, <<"[", " ", "A", " ", "]">>, <<"{", "{", "A", "}", "}">>,
      <<"{", "{", " ", "A", " ", "}", "}">>, <<"[", "\t", "A", " ", "]">>,
      <<"{", "{", " ", " ", "A", " ", " ", "}", "}">>, <<"[", "]">>,
      <<"{", "{", " ", "}", "}">>, tokA \o <<"x">> \o tokB, <<"x", "x">>,
      tokB \o <<"{", "{", "A", "}", "}">> }

Fmts == {PlainFmt, RichFmt}

\* A paragraph of the given run texts: the first run formatted f, the others plain.
MkPara(texts, f) ==
    [i \in 1..Len(texts) |-> [text |-> texts[i], fmt |-> IF i = 1 THEN f ELSE PlainFmt]]

MultiRunParas ==
    { MkPara(ts, f) : ts \in UNION {[1..n -> Frag] : n \in 1..MaxRuns}, f \in Fmts }

ShortParas == { MkPara(ts, RichFmt) : ts \in UNION {[1..n -> Frag] : n \in 1..2} }

\* Three-run paragraphs that begin with a whole token.
LinkedParas == { MkPara(<<tokA>> \o ts, RichFmt) : ts \in [1..2 -> Frag] }

WholeParas == { MkPara(<<t>>, RichFmt) : t \in WholeFrag }

EmptyStory(kind) == [kind |-> kind, paras |-> <<>>, cells |-> <<>>, shapes |-> <<>>]

\* One section with its own header (story 2) and footer (story 3).
OneSection == << [header |-> 2, footer |-> 3] >>

\* Two sections, the second linked to the previous: it shows the first
\* section's header and footer parts.
LinkedSections == << [header |-> 2, footer |-> 3], [header |-> 2, footer |-> 3] >>

BlankDoc(secs) ==
    [stories |-> <<EmptyStory("document"), EmptyStory("header"), EmptyStory("footer")>>,
     sections |-> secs, extras |-> <<>>]

Media == [name |-> <<"word/", "media/", "image1", ".png">>, decodable |-> FALSE,
          data |-> tokA]

\* A document with the one paragraph p at (story, part)
DocWith(secs, story, part, p) ==
    IF part = "paras"
    THEN [BlankDoc(secs) EXCEPT !.stories[story].paras = <<p>>]
    ELSE [BlankDoc(secs) EXCEPT !.stories[story].cells = <<p>>]

\* Header, body and footer each with a paragraph "x[K]", with or without the
\* same paragraphs in a table cell of the body, a text box and a media part.
RegionDoc(kh, kb, kf, full) ==
    LET para(k) == MkPara(<<<<"x", "[", k, "]">>>>, PlainFmt)
    IN  [stories |->
            << [kind |-> "document", paras |-> <<para(kb)>>,
                cells |-> IF full THEN <<para(kb), para(kb)>> ELSE <<>>,
                shapes |-> IF full THEN <<tokA>> ELSE <<>>],
               [kind |-> "header", paras |-> <<para(kh)>>,
                cells |-> IF full THEN <<para(kh)>> ELSE <<>>, shapes |-> <<>>],
               [kind |-> "footer", paras |-> <<para(kf)>>,
                cells |-> IF full THEN <<para(kf)>> ELSE <<>>, shapes |-> <<>>] >>,
         sections |-> OneSection,
         extras |-> IF full THEN <<Media>> ELSE <<>>]

FieldChars == {"A", "B", "C"}

DocSet ==
    { DocWith(OneSection, 1, "paras", p) : p \in MultiRunParas }
    \cup { DocWith(OneSection, s, part, p) :
             s \in 1..3, part \in {"paras", "cells"}, p \in WholeParas }
    \cup { DocWith(LinkedSections, 2, "paras", p) : p \in ShortParas \cup LinkedParas }
    \cup { RegionDoc(kh, kb, kf, full) :
             kh \in FieldChars, kb \in FieldChars, kf \in FieldChars, full \in BOOLEAN }

E(k, v) == [key |-> k, value |-> v]

\* Mappings of one or two fields, in either order, with an empty value and
\* with a key that has whitespace to strip.
CoreMappings ==
    { << E(<<"A">>, <<"v">>) >>,
      << E(<<"A">>, <<>>) >>,
      << E(<<" ", "A">>, <<"v">>) >>,
      << E(<<"A">>, <<"v">>), E(<<"B">>, <<"w">>) >>,
      << E(<<"B">>, <<"w">>), E(<<"A">>, <<"v">>) >> }

MappingSet ==
    CoreMappings
    \cup { <<>>, << E(<<"A">>, <<"v">>), E(<<"B">>, <<"w">>), E(<<"C">>, <<"u">>) >> }

\* The (document, mapping) pairs a run starts from.
Inputs ==
    ({ DocWith(OneSection, 1, "paras", p) : p \in MultiRunParas } \X CoreMappings)
    \cup ((DocSet \ { DocWith(OneSection, 1, "paras", p) : p \in MultiRunParas })
          \X MappingSet)

\* Parts of an archive besides the document part: inside and outside word/,
\* XML and not, decodable and not, each holding a token of field A.
OtherEntries ==
    << Media,
       [name |-> <<"docProps/", "core", ".xml">>, decodable |-> TRUE, data |-> tokA],
       [name |-> <<"word/", "embeddings/", "blob", ".xml">>, decodable |-> FALSE,
        data |-> tokA],
       [name |-> <<"customXml/", "word/", "item1", ".xml">>, decodable |-> TRUE,
        data |-> <<"{", "{", "A", "}", "}">>],
       [name |-> <<"word/", "document", ".xml", ".rels">>, decodable |-> TRUE,
        data |-> tokA],
       [name |-> <<"word/", "settings", ".xml">>, decodable |-> TRUE,
        data |-> <<"<w:settings>", "x", "</w:settings>">>] >>

\* Texts of text boxes: tokens with any amount of blanks around the name.
ShapeTexts ==
    WholeFrag \cup { <<"[", " ", " ", "A", "]">>, <<"{", "{", "B", " ", " ", "}", "}">>,
                     <<"[", "A", " ", "B", "]">> }

\* Mappings handed to the raw pass: those of the fill, and values with a
\* backslash in them (str(value) goes to re.sub as its replacement string).
RawMappings ==
    MappingSet
    \cup { << E(<<"A">>, <<"N", "\\", "A">>) >>,
           << E(<<"A">>, <<"x", "\\", "n">>) >>,
           << E(<<"A">>, <<"\\", "\\">>), E(<<"B">>, <<"w">>) >> }

\* Documents whose saved package the raw pass is run on.
RawDocs ==
    { [DocWith(OneSection, 1, "paras", p) EXCEPT !.extras = OtherEntries] :
        p \in ShortParas }
    \cup { [BlankDoc(OneSection) EXCEPT !.stories[1].shapes = <<t>>,
                                        !.extras = OtherEntries] : t \in ShapeTexts }

PkgSet == { Serialize(d) : d \in RawDocs }

(***************************************************************************)
(* The state machine of the structural engine: load, scan, fill, save.     *)
(***************************************************************************)
Init ==
    /\ \E in \in Inputs : template = in[1] /\ mapping = in[2]
    /\ doc = template
    /\ fills = 0
    /\ prevDoc = template
    /\ visits = <<>>
    /\ placeholders = <<>>
    /\ scanned = FALSE
    /\ pkgIn = <<>>
    /\ pkg = <<>>
    /\ rawCalls = 0
    /\ rawRaised = FALSE
    /\ validations = <<>>
    /\ serviceCalls = 0
    /\ NoEdits /\ NoOcr /\ NoApp /\ NoMapper

\* placeholders = extract_placeholders(doc)
ExtractPlaceholders ==
    /\ pkg = <<>>
    /\ ~scanned
    /\ placeholders' = extract_placeholders(doc)
    /\ scanned' = TRUE
    /\ UNCHANGED <<template, doc, mapping, fills, prevDoc, visits, pkgIn, pkg,
                   rawCalls, rawRaised, validations, serviceCalls,
                   editVars, ocrVars, appVars,
                   mapperVars>>

\* filled_doc = fill_docx_template(doc, mapping)
FillDocxTemplate ==
    /\ pkg = <<>>
    /\ fills < MaxFills
    /\ LET r == fill_docx_template(doc, mapping)
       IN  /\ doc' = r.doc
           /\ visits' = r.visits
    /\ prevDoc' = doc
    /\ fills' = fills + 1
    /\ placeholders' = <<>>
    /\ scanned' = FALSE
    /\ UNCHANGED <<template, mapping, pkgIn, pkg, rawCalls, rawRaised,
                   validations, serviceCalls,
                   editVars, ocrVars, appVars,
                   mapperVars>>

\* final_bytes = save_document(filled_doc, mapping)
SaveDocument ==
    /\ pkg = <<>>
    /\ fills >= 1
    /\ LET r == save_document(doc, mapping)
       IN  /\ pkgIn' = r.raw
           /\ pkg' = r.final
           /\ rawRaised' = r.raised
    /\ rawCalls' = IF mapping # <<>> THEN rawCalls + 1 ELSE rawCalls
    /\ UNCHANGED <<template, doc, mapping, fills, prevDoc, visits, placeholders,
                   scanned, validations, serviceCalls,
                   editVars, ocrVars, appVars,
                   mapperVars>>

Next == ExtractPlaceholders \/ FillDocxTemplate \/ SaveDocument

Spec == Init /\ [][Next]_vars

(***************************************************************************)
(* The raw-package pass on its own, on saved packages.                     *)
(***************************************************************************)
InitRaw ==
    /\ template = BlankDoc(OneSection)
    /\ doc = template
    /\ mapping \in RawMappings
    /\ fills = 0
    /\ prevDoc = template
    /\ visits = <<>>
    /\ placeholders = <<>>
    /\ scanned = FALSE
    /\ pkg \in PkgSet
    /\ pkgIn = pkg
    /\ rawCalls = 0
    /\ rawRaised = FALSE
    /\ validations = <<>>
    /\ serviceCalls = 0
    /\ NoEdits /\ NoOcr /\ NoApp /\ NoMapper

\* new_bytes = _xml_replace_in_docx_bytes(cur, mapping); when the call raises
\* the caller keeps the bytes it had
XmlReplace ==
    /\ rawCalls < MaxRawCalls
    /\ LET r == xml_replace_in_docx_bytes(pkg, mapping)
       IN  /\ pkg' = IF r.ok THEN r.pkg ELSE pkg
           /\ rawRaised' = ~r.ok
    /\ pkgIn' = pkg
    /\ rawCalls' = rawCalls + 1
    /\ UNCHANGED <<template, doc, mapping, fills, prevDoc, visits, placeholders,
                   scanned, validations, serviceCalls,
                   editVars, ocrVars, appVars,
                   mapperVars>>

NextRaw == XmlReplace

SpecRaw == InitRaw /\ [][NextRaw]_vars

(***************************************************************************)
(* The validator on saved packages.                                        *)
(***************************************************************************)
ValidatorDocs ==
    { RegionDoc(kh, "B", "C", FALSE) : kh \in FieldChars }

InitValidator ==
    /\ template \in ValidatorDocs
    /\ mapping \in MappingSet
    /\ doc = fill_docx_template(template, mapping).doc
    /\ fills = 1
    /\ prevDoc = template
    /\ visits = fill_docx_template(template, mapping).visits
    /\ placeholders = <<>>
    /\ scanned = FALSE
    /\ pkgIn = save_document(doc, mapping).raw
    /\ pkg = save_document(doc, mapping).final
    /\ rawCalls = IF mapping # <<>> THEN 1 ELSE 0
    /\ rawRaised = FALSE
    /\ validations = <<>>
    /\ serviceCalls = 0
    /\ NoEdits /\ NoOcr /\ NoApp /\ NoMapper

\* validation = validate_filled_docx_bytes(final_bytes, mapping, api_key)
Validate(api_key, outcome) ==
    /\ Len(validations) < MaxValidations
    /\ LET r == validate_filled_docx_bytes(pkg, mapping, api_key, outcome)
       IN  /\ validations' = Append(validations,
                                    [api_key |-> api_key, doc_bytes |-> pkg,
                                     mapping |-> mapping, result |-> r.result])
           /\ serviceCalls' = IF r.called THEN serviceCalls + 1 ELSE serviceCalls
    /\ UNCHANGED <<template, doc, mapping, fills, prevDoc, visits, placeholders,
                   scanned, pkgIn, pkg, rawCalls, rawRaised,
                   editVars, ocrVars, appVars,
                   mapperVars>>

NextValidator == \E api_key \in ApiKeys, outcome \in ServiceOutcomes : Validate(api_key, outcome)

SpecValidator == InitValidator /\ [][NextValidator]_vars

(***************************************************************************)
(* Filling and saving documents with text boxes and other archive parts,   *)
(* with mappings whose values re.sub may reject.                           *)
(***************************************************************************)
InitSave ==
    /\ template \in RawDocs
    /\ mapping \in RawMappings
    /\ doc = template
    /\ fills = 0
    /\ prevDoc = template
    /\ visits = <<>>
    /\ placeholders = <<>>
    /\ scanned = FALSE
    /\ pkgIn = <<>>
    /\ pkg = <<>>
    /\ rawCalls = 0
    /\ rawRaised = FALSE
    /\ validations = <<>>
    /\ serviceCalls = 0
    /\ NoEdits /\ NoOcr /\ NoApp /\ NoMapper

SpecSave == InitSave /\ [][Next]_vars

(***************************************************************************)
(* Filling and saving with the same fields given in either order, and      *)
(* with values that hold or complete a token of another field.             *)
(***************************************************************************)
OrderTexts ==
    { tokA, tokA \o <<"x">> \o tokB, <<"[", "[", "A", "]", "B", "]">>,
      <<"{", "{", "A", "}", "}">> \o tokB, <<"x", "x">> }

OrderDocs ==
    { DocWith(OneSection, 1, "paras", MkPara(<<t>>, RichFmt)) : t \in OrderTexts }
    \cup { DocWith(OneSection, 1, "paras", MkPara(<<<<"[">>, t>>, PlainFmt)) : t \in OrderTexts }
    \cup { [BlankDoc(OneSection) EXCEPT !.stories[1].shapes = <<t>>] : t \in OrderTexts }

\* The fields A and B in both insertion orders of the dict, the value of A
\* plain, a token of B, or empty
OrderMappings ==
    UNION { { << E(<<"A">>, a), E(<<"B">>, <<"w">>) >>,
              << E(<<"B">>, <<"w">>), E(<<"A">>, a) >> } : a \in {<<"v">>, tokB, <<>>} }

InitOrder ==
    /\ template \in OrderDocs
    /\ mapping \in OrderMappings
    /\ doc = template
    /\ fills = 0
    /\ prevDoc = template
    /\ visits = <<>>
    /\ placeholders = <<>>
    /\ scanned = FALSE
    /\ pkgIn = <<>>
    /\ pkg = <<>>
    /\ rawCalls = 0
    /\ rawRaised = FALSE
    /\ validations = <<>>
    /\ serviceCalls = 0
    /\ NoEdits /\ NoOcr /\ NoApp /\ NoMapper

SpecOrder == InitOrder /\ [][Next]_vars

(***************************************************************************)
(* Applying suggested text edits to the saved bytes.                       *)
(***************************************************************************)
\* Edit keys: bare, with whitespace, wrapped in either syntax, wrapped twice,
\* half wrapped, and wrappers with nothing inside.
EditKeys ==
    { <<"A">>, <<" ", "A", " ">>, tokA, <<"[", " ", "A", " ", "]">>,
      <<"{", "{", "A", "}", "}">>, <<" ", "{", "{", " ", "A", " ", "}", "}">>,
      <<"{", "{">> \o tokA \o <<"}", "}">>, <<"[">> \o tokA \o <<"]">>,
      <<"[", "{", "{", "A", "}", "}", "]">>,
      <<"{", "{", " ", "{", "{", "A", "}", "}", " ", "}", "}">>,
      <<"[", "A">>, <<"{", "{", "A", "]">>, <<"{", "{", "}", "}">>, <<"[", "]">>,
      <<"B">>, tokB }

\* Edit mappings of one or two entries (a dict: the keys differ)
EditSet ==
    { << E(k, <<"v">>) >> : k \in EditKeys }
    \cup { << E(ks[1], <<"v">>), E(ks[2], <<"w">>) >> :
             ks \in { x \in EditKeys \X EditKeys : x[1] # x[2] } }

\* Saved documents with a text box holding a token, plain or inside brackets
EditPkgs ==
    { Serialize([BlankDoc(OneSection) EXCEPT !.stories[1].shapes = <<t>>]) :
        t \in { tokA, <<"[">> \o tokA \o <<"]">> } }

InitEdits ==
    /\ template = BlankDoc(OneSection)
    /\ doc = template
    /\ mapping = <<>>
    /\ fills = 0
    /\ prevDoc = template
    /\ visits = <<>>
    /\ placeholders = <<>>
    /\ scanned = FALSE
    /\ pkg \in EditPkgs
    /\ pkgIn = pkg
    /\ rawCalls = 0
    /\ rawRaised = FALSE
    /\ validations = <<>>
    /\ serviceCalls = 0
    /\ edits \in EditSet
    /\ normalized = <<>>
    /\ NoOcr /\ NoApp /\ NoMapper

\* new_bytes = apply_text_edits_to_docx_bytes(cur, suggested_edits); the
\* session keeps the bytes it had when the call raises
ApplyTextEdits ==
    /\ rawCalls < MaxRawCalls
    /\ LET r == apply_text_edits_to_docx_bytes(pkg, edits)
       IN  /\ normalized' = r.normalized
           /\ pkg' = IF r.ok THEN r.pkg ELSE pkg
           /\ rawRaised' = ~r.ok
    /\ pkgIn' = pkg
    /\ rawCalls' = rawCalls + 1
    /\ UNCHANGED <<template, doc, mapping, fills, prevDoc, visits, placeholders,
                   scanned, validations, serviceCalls, edits, ocrVars, appVars,
                   mapperVars>>

NextEdits == ApplyTextEdits

SpecEdits == InitEdits /\ [][NextEdits]_vars

(***************************************************************************)
(* extract_text_from_image (modules/gemini_ocr.py): remote attempts with   *)
(* backoff, then the local fallbacks.  ocrLog records what the call did:   *)
(* [kind |-> "remote", attempt, outcome], [kind |-> "sleep", attempt,      *)
(* delay] and [kind |-> "pytesseract" or "cli", outcome].  Delays are in   *)
(* thousandths of a second.                                                *)
(***************************************************************************)
max_attempts == 3

\* backoff_base = 1.5, as a fraction
backoff_base == [num |-> 3, den |-> 2]

RECURSIVE Pow(_, _)
Pow(b, e) == IF e = 0 THEN 1 ELSE b * Pow(b, e - 1)

\* sleep_time = backoff_base ** attempt
sleep_time(att) == (1000 * Pow(backoff_base.num, att)) \div Pow(backoff_base.den, att)

\* What one generate_content call can do: answer text, answer an object with
\* empty text, answer nothing, or raise.
RemoteOutcomes == {"text", "empty_text", "no_response", "raise"}

\* What a local OCR helper returns: text, only whitespace, or "" (also when
\* the package or the program is missing, or the helper raised inside).
LocalOutcomes == {"text", "whitespace", "empty"}

\* Sensitivity variant of RemoteStep: the loop left at the first failure
RemoteStep_break_on_failure(att, outcome) ==
    IF outcome = "text"
    THEN [pc |-> "returned", attempt |-> att, slept |-> <<>>,
          last_exc |-> "None", result |-> "remote text"]
    ELSE [pc |-> "pytesseract", attempt |-> att, slept |-> <<>>,
          last_exc |-> IF outcome = "raise" THEN "remote error"
                       ELSE "Empty response from Gemini",
          result |-> "None"]

\* One iteration of the loop over attempts: where the call goes next, the
\* sleep it made, and last_exc ("None": left as it was).
RemoteStep(att, outcome) ==
    IF outcome = "text"
    THEN [pc |-> "returned", attempt |-> att, slept |-> <<>>,
          last_exc |-> "None", result |-> "remote text"]
    ELSE IF outcome = "raise"
    THEN IF att < max_attempts
         THEN [pc |-> "remote", attempt |-> att + 1,
               slept |-> <<[kind |-> "sleep", attempt |-> att, delay |-> sleep_time(att)]>>,
               last_exc |-> "remote error", result |-> "None"]
         ELSE [pc |-> "pytesseract", attempt |-> att, slept |-> <<>>,
               last_exc |-> "remote error", result |-> "None"]
    ELSE [pc |-> IF att < max_attempts THEN "remote" ELSE "pytesseract",
          attempt |-> IF att < max_attempts THEN att + 1 ELSE att,
          slept |-> <<>>,
          last_exc |-> "Empty response from Gemini", result |-> "None"]

\* if text and text.strip(): return text
LocalAccepted(outcome) == outcome = "text"

\* The message of the exception raised when nothing worked
FailureMessage(exc) ==
    [head |-> "Failed to extract text from image: ",
     cause |-> IF exc # "None" THEN exc ELSE "Unknown error",
     names |-> {"tesseract-ocr", "pytesseract"}]

\* One local fallback (helper "pytesseract" or "cli"): where the call goes next
LocalStep(helper, outcome, exc) ==
    IF LocalAccepted(outcome) THEN [pc |-> "returned", result |-> "local text"]
    ELSE IF helper = "pytesseract" THEN [pc |-> "cli", result |-> "None"]
    ELSE [pc |-> "raised", result |-> FailureMessage(exc)]

InitOcr ==
    /\ template = BlankDoc(OneSection)
    /\ doc = template
    /\ mapping = <<>>
    /\ fills = 0
    /\ prevDoc = template
    /\ visits = <<>>
    /\ placeholders = <<>>
    /\ scanned = FALSE
    /\ pkgIn = <<>>
    /\ pkg = <<>>
    /\ rawCalls = 0
    /\ rawRaised = FALSE
    /\ validations = <<>>
    /\ serviceCalls = 0
    /\ NoEdits /\ NoOcr /\ NoApp /\ NoMapper

\* The call: max_attempts, backoff_base, the image encoded, last_exc = None
OcrCall ==
    /\ ocrPc = "idle"
    /\ ocrPc' = "remote"
    /\ attempt' = 1
    /\ last_exc' = "None"
    /\ ocrLog' = <<>>
    /\ ocrResult' = "None"
    /\ UNCHANGED <<template, doc, mapping, fills, prevDoc, visits, placeholders,
                   scanned, pkgIn, pkg, rawCalls, rawRaised, validations,
                   serviceCalls, editVars, appVars,
                   mapperVars>>

\* One pass through the loop body
RemoteAttempt(outcome) ==
    /\ ocrPc = "remote"
    /\ LET r == RemoteStep(attempt, outcome)
       IN  /\ ocrPc' = r.pc
           /\ attempt' = r.attempt
           /\ last_exc' = IF r.last_exc # "None" THEN r.last_exc ELSE last_exc
           /\ ocrResult' = r.result
           /\ ocrLog' = ocrLog
                        \o <<[kind |-> "remote", attempt |-> attempt, outcome |-> outcome]>>
                        \o r.slept
    /\ UNCHANGED <<template, doc, mapping, fills, prevDoc, visits, placeholders,
                   scanned, pkgIn, pkg, rawCalls, rawRaised, validations,
                   serviceCalls, editVars, appVars,
                   mapperVars>>

\* text = _local_ocr_with_pytesseract(image), then _local_ocr_with_cli(image)
LocalFallback(outcome) ==
    /\ ocrPc \in {"pytesseract", "cli"}
    /\ LET r == LocalStep(ocrPc, outcome, last_exc)
       IN  /\ ocrPc' = r.pc
           /\ ocrResult' = r.result
    /\ ocrLog' = Append(ocrLog, [kind |-> ocrPc, outcome |-> outcome])
    /\ UNCHANGED <<template, doc, mapping, fills, prevDoc, visits, placeholders,
                   scanned, pkgIn, pkg, rawCalls, rawRaised, validations,
                   serviceCalls, editVars, appVars, attempt, last_exc,
                   mapperVars>>

NextOcr ==
    \/ OcrCall
    \/ \E outcome \in RemoteOutcomes : RemoteAttempt(outcome)
    \/ \E outcome \in LocalOutcomes : LocalFallback(outcome)

SpecOcr == InitOcr /\ [][NextOcr]_vars

(***************************************************************************)
(* The "Analyze & Generate" handler of app.py: the seven steps of one      *)
(* processing run.  steps records every call made, over all runs:          *)
(* [run, step, raised]; shown holds the boxes of the current page:         *)
(* [box, step].  The session fields that are only displayed                *)
(* (extracted_text, json_mapping, template_bytes, cleaned_text) are left   *)
(* out.                                                                    *)
(***************************************************************************)
PipelineSteps == <<"pdf", "ocr", "load", "map", "fill", "cleanup", "save", "validate">>

\* The step after `step` in the handler's text, "idle" after the last
StepAfter(step) ==
    LET n == CHOOSE n \in 1..Len(PipelineSteps) : PipelineSteps[n] = step
    IN  IF n = Len(PipelineSteps) THEN "idle" ELSE PipelineSteps[n + 1]

\* Sensitivity variant of AfterStep: the outer except shows the error and the
\* run goes on with the next step
AfterStep_goes_on(step, raised) ==
    IF ~raised THEN [pc |-> StepAfter(step), box |-> IF step = "validate" THEN "none" ELSE "success"]
    ELSE IF step = "cleanup" THEN [pc |-> "save", box |-> "warning"]
    ELSE IF step = "validate" THEN [pc |-> "idle", box |-> "none"]
    ELSE [pc |-> StepAfter(step), box |-> "error"]

\* Sensitivity variant of AfterStep: no try around the cleanup call
AfterStep_cleanup_unguarded(step, raised) ==
    IF ~raised THEN [pc |-> StepAfter(step), box |-> IF step = "validate" THEN "none" ELSE "success"]
    ELSE IF step = "validate" THEN [pc |-> "idle", box |-> "none"]
    ELSE [pc |-> "idle", box |-> "error"]

\* Where the handler goes after a step, and the box it shows: the next step
\* and a success box (validation shows none); when the step raised, the inner
\* except of the cleanup (warning box, on to the save), the inner except of
\* the validation (nothing shown), or the outer except (error box, run over).
AfterStep(step, raised) ==
    IF ~raised THEN [pc |-> StepAfter(step), box |-> IF step = "validate" THEN "none" ELSE "success"]
    ELSE IF step = "cleanup" THEN [pc |-> "save", box |-> "warning"]
    ELSE IF step = "validate" THEN [pc |-> "idle", box |-> "none"]
    ELSE [pc |-> "idle", box |-> "error"]

\* The bookkeeping common to the steps
Stepped(step, raised) ==
    LET r == AfterStep(step, raised)
    IN  /\ appPc' = r.pc
        /\ steps' = Append(steps, [run |-> runs, step |-> step, raised |-> raised])
        /\ shown' = IF r.box = "none" THEN shown
                    ELSE Append(shown, [box |-> r.box, step |-> step])

\* if st.session_state.get('final_docx'): the download button is on the page
DownloadOffered == final_docx # <<>>

\* The uploaded templates: a token in one run, two tokens in one run, no
\* token, a token split over runs beside a whole one.
AppTemplates ==
    { DocWith(OneSection, 1, "paras", MkPara(<<t>>, RichFmt))
        : t \in {tokA, tokA \o <<"x">> \o tokB, <<"x", "x">>} }
    \cup { DocWith(OneSection, 1, "paras", MkPara(<<<<"[", "B">>, <<"]">>, tokA>>, RichFmt)) }

\* final_mapping of map_placeholders_to_values when the reply gives a value
\* for the placeholders in `found`: the others get the empty string
final_mapping(phs, found) ==
    [n \in 1..Len(phs) |-> E(phs[n], IF phs[n] \in found THEN <<"v">> ELSE <<>>)]

\* cleaned_text.split('\n') of the replies the cleanup service can give
CleanedLines == { << <<"c">> >>, << <<"c">>, <<"d">> >> }

\* The loop over cleaned_lines: paragraph.text = line for the body paragraphs
\* that exist (the setter leaves one new run)
SetParagraphTexts(d, lines) ==
    [d EXCEPT !.stories[1].paras =
        [i \in 1..Len(d.stories[1].paras) |->
            IF i <= Len(lines) THEN <<add_run(lines[i])>> ELSE d.stories[1].paras[i]]]

\* What the validation call can do: json.dumps(mapping) raising before the
\* client is looked at, or any outcome of the service
ValidationOutcomes == ServiceOutcomes \cup {"dumps_raises"}

InitApp ==
    /\ template \in AppTemplates
    /\ doc = template
    /\ mapping = <<>>
    /\ fills = 0
    /\ prevDoc = template
    /\ visits = <<>>
    /\ placeholders = <<>>
    /\ scanned = FALSE
    /\ pkgIn = <<>>
    /\ pkg = <<>>
    /\ rawCalls = 0
    /\ rawRaised = FALSE
    /\ validations = <<>>
    /\ serviceCalls = 0
    /\ NoEdits /\ NoOcr /\ NoApp /\ NoMapper

\* The button is pressed: final_docx is reset, the handler's locals are new
PressProcess ==
    /\ appPc = "idle"
    /\ runs < MaxPresses
    /\ runs' = runs + 1
    /\ final_docx' = <<>>
    /\ shown' = <<>>
    /\ appPc' = "pdf"
    /\ doc' = template
    /\ mapping' = <<>>
    /\ placeholders' = <<>>
    /\ pkgIn' = <<>>
    /\ pkg' = <<>>
    /\ UNCHANGED <<template, fills, prevDoc, visits, scanned, rawCalls, rawRaised,
                   validations, serviceCalls, editVars, ocrVars, steps, validation,
                   mapperVars>>

\* images = process_multiple_pdfs(pdf_files)
ConvertPdfs(raised) ==
    /\ appPc = "pdf"
    /\ Stepped("pdf", raised)
    /\ UNCHANGED <<template, doc, mapping, fills, prevDoc, visits, placeholders,
                   scanned, pkgIn, pkg, rawCalls, rawRaised, validations,
                   serviceCalls, editVars, ocrVars, runs, final_docx, validation,
                   mapperVars>>

\* extracted_text = extract_text_from_images(images, api_key)
RunOcr(raised) ==
    /\ appPc = "ocr"
    /\ Stepped("ocr", raised)
    /\ UNCHANGED <<template, doc, mapping, fills, prevDoc, visits, placeholders,
                   scanned, pkgIn, pkg, rawCalls, rawRaised, validations,
                   serviceCalls, editVars, ocrVars, runs, final_docx, validation,
                   mapperVars>>

\* doc = load_template(template_bytes); placeholders = extract_placeholders(doc)
LoadTemplate(raised) ==
    /\ appPc = "load"
    /\ Stepped("load", raised)
    /\ doc' = IF raised THEN doc ELSE template
    /\ placeholders' = IF raised THEN placeholders ELSE extract_placeholders(template)
    /\ scanned' = IF raised THEN scanned ELSE TRUE
    /\ UNCHANGED <<template, mapping, fills, prevDoc, visits, pkgIn, pkg, rawCalls,
                   rawRaised, validations, serviceCalls, editVars, ocrVars,
                   runs, final_docx, validation,
                   mapperVars>>

\* mapping = map_placeholders_to_values(extracted_text, placeholders, api_key)
MapPlaceholders(raised, found) ==
    /\ appPc = "map"
    /\ Stepped("map", raised)
    /\ mapping' = IF raised THEN mapping ELSE final_mapping(placeholders, found)
    /\ UNCHANGED <<template, doc, fills, prevDoc, visits, placeholders, scanned,
                   pkgIn, pkg, rawCalls, rawRaised, validations, serviceCalls,
                   editVars, ocrVars, runs, final_docx, validation,
                   mapperVars>>

\* filled_doc = fill_docx_template(doc, mapping)
FillStep ==
    /\ appPc = "fill"
    /\ Stepped("fill", FALSE)
    /\ LET r == fill_docx_template(doc, mapping)
       IN  /\ doc' = r.doc
           /\ visits' = r.visits
    /\ prevDoc' = doc
    /\ fills' = fills + 1
    /\ UNCHANGED <<template, mapping, placeholders, scanned, pkgIn, pkg, rawCalls,
                   rawRaised, validations, serviceCalls, editVars, ocrVars,
                   runs, final_docx, validation,
                   mapperVars>>

\* cleaned_text = fill_template_with_intelligent_content(...) and the loop
\* that writes the lines into the paragraphs
Cleanup(raised, lines) ==
    /\ appPc = "cleanup"
    /\ Stepped("cleanup", raised)
    /\ doc' = IF raised THEN doc ELSE SetParagraphTexts(doc, lines)
    /\ UNCHANGED <<template, mapping, fills, prevDoc, visits, placeholders, scanned,
                   pkgIn, pkg, rawCalls, rawRaised, validations, serviceCalls,
                   editVars, ocrVars, runs, final_docx, validation,
                   mapperVars>>

\* final_bytes = save_document(filled_doc, mapping);
\* st.session_state.final_docx = final_bytes
SaveStep ==
    /\ appPc = "save"
    /\ Stepped("save", FALSE)
    /\ LET r == save_document(doc, mapping)
       IN  /\ pkgIn' = r.raw
           /\ pkg' = r.final
           /\ final_docx' = r.final
           /\ rawRaised' = r.raised
    /\ rawCalls' = IF mapping # <<>> THEN rawCalls + 1 ELSE rawCalls
    /\ UNCHANGED <<template, doc, mapping, fills, prevDoc, visits, placeholders,
                   scanned, validations, serviceCalls, editVars, ocrVars,
                   runs, validation,
                   mapperVars>>

\* validation = validate_filled_docx_bytes(final_bytes, mapping, api_key), or
\* the record of the except clause
ValidateStep(api_key, outcome) ==
    /\ appPc = "validate"
    /\ Stepped("validate", outcome = "dumps_raises")
    /\ LET r == validate_filled_docx_bytes(pkg, mapping, api_key, outcome)
       IN  IF outcome = "dumps_raises"
           THEN /\ validation' = <<[status |-> "error", issues |-> <<"str(e)">>]>>
                /\ UNCHANGED <<validations, serviceCalls>>
           ELSE /\ validation' = <<r.result>>
                /\ validations' = Append(validations, r.result)
                /\ serviceCalls' = IF r.called THEN serviceCalls + 1 ELSE serviceCalls
    /\ UNCHANGED <<template, doc, mapping, fills, prevDoc, visits, placeholders,
                   scanned, pkgIn, pkg, rawCalls, rawRaised, editVars, ocrVars,
                   runs, final_docx,
                   mapperVars>>

NextApp ==
    \/ PressProcess
    \/ \E raised \in BOOLEAN : ConvertPdfs(raised)
    \/ \E raised \in BOOLEAN : RunOcr(raised)
    \/ \E raised \in BOOLEAN : LoadTemplate(raised)
    \/ \E raised \in BOOLEAN : \E found \in SUBSET { placeholders[n] : n \in 1..Len(placeholders) } :
          (raised => found = {}) /\ MapPlaceholders(raised, found)
    \/ FillStep
    \/ \E raised \in BOOLEAN : \E lines \in CleanedLines :
          (raised => lines = << <<"c">> >>) /\ Cleanup(raised, lines)
    \/ SaveStep
    \/ \E api_key \in {"key", "badkey"} : \E outcome \in ValidationOutcomes :
          ValidateStep(api_key, outcome)

SpecApp == InitApp /\ [][NextApp]_vars

(***************************************************************************)
(* map_placeholders_to_values (modules/gemini_mapper.py).  A reply text is *)
(* a sequence of symbols: spaces, "<fence>" for the three backquotes of a   *)
(* code fence and "<fence>json" for those followed by json, and JSON texts *)
(* taken whole ("{A:v}", "[1]", "null", "str" for a JSON string, ...).     *)
(***************************************************************************)
\* The JSON texts a reply can hold: objects, values that are no object, and
\* texts json.loads rejects
JsonObjects == {"{A:v}", "{}", "{C:u}"}
JsonOthers == {"[1]", "str", "7", "null"}
NotJson == {"{A:", "Sure!"}

\* response.text of the replies: bare, fenced, fenced without "json", with
\* the closing fence missing, with prose before the JSON, and empty
Replies ==
    UNION { { <<b>>, <<" ", b, " ">>, <<"<fence>json", b, "<fence>">>, <<"<fence>", b, "<fence>">>,
              <<"<fence>json", b>> } : b \in JsonObjects \cup JsonOthers \cup NotJson }
    \cup { <<"Sure!", " ", "{A:v}">>, <<" ">>, <<>> }

\* The three slices on the stripped reply, then strip again
response_text(text) ==
    LET t0 == Strip(text)
        t1 == IF t0 # <<>> /\ Head(t0) = "<fence>json" THEN Tail(t0) ELSE t0
        t2 == IF t1 # <<>> /\ Head(t1) = "<fence>" THEN Tail(t1) ELSE t1
        t3 == IF t2 # <<>> /\ t2[Len(t2)] = "<fence>" THEN SubSeq(t2, 1, Len(t2) - 1) ELSE t2
    IN  Strip(t3)

\* json.loads(response_text): "invalid" when it raises JSONDecodeError, else
\* the kind of the value
json_loads(rt) ==
    IF Len(rt) = 1 /\ rt[1] \in JsonObjects THEN "object"
    ELSE IF Len(rt) = 1 /\ rt[1] \in JsonOthers THEN "other"
    ELSE "invalid"

\* The keys of the parsed object
ObjectKeys(rt) ==
    IF rt[1] = "{A:v}" THEN {<<"A">>} ELSE IF rt[1] = "{C:u}" THEN {<<"C">>} ELSE {}

\* map_placeholders_to_values(extracted_text, placeholders, api_key) when the
\* collaborator's response.text is `text`: [raised, message, mapping]
map_placeholders_to_values(phs, text) ==
    LET rt == response_text(text)
        kind == json_loads(rt)
    IN  IF text = <<>>
        THEN [raised |-> TRUE,
              message |-> <<"Failed to map placeholders: ", "Empty response from Gemini">>,
              mapping |-> <<>>]
        ELSE IF kind = "invalid"
        THEN [raised |-> TRUE,
              message |-> <<"Failed to parse JSON response from Gemini: ", "str(e)",
                            "\nResponse: ">> \o rt,
              mapping |-> <<>>]
        ELSE IF kind = "other" /\ phs # <<>>
        THEN [raised |-> TRUE,
              message |-> <<"Failed to map placeholders: ", "str(e)">>,
              mapping |-> <<>>]
        ELSE [raised |-> FALSE, message |-> <<>>,
              mapping |-> IF kind = "other" THEN <<>>
                          ELSE final_mapping(phs, ObjectKeys(rt))]

InitMapper ==
    /\ template = BlankDoc(OneSection)
    /\ doc = template
    /\ mapping = <<>>
    /\ fills = 0
    /\ prevDoc = template
    /\ visits = <<>>
    /\ placeholders \in { <<>>, << <<"A">> >>, << <<"A">>, <<"B">> >> }
    /\ scanned = TRUE
    /\ pkgIn = <<>>
    /\ pkg = <<>>
    /\ rawCalls = 0
    /\ rawRaised = FALSE
    /\ validations = <<>>
    /\ serviceCalls = 0
    /\ NoEdits /\ NoOcr /\ NoApp /\ NoMapper

\* response = client.models.generate_content(...)
AskCollaborator(text) ==
    /\ mapperPc = "idle"
    /\ Len(mapped) < MaxMapperCalls
    /\ mapperPc' = "replied"
    /\ reply' = text
    /\ asks' = asks + 1
    /\ UNCHANGED <<template, doc, mapping, fills, prevDoc, visits, placeholders,
                   scanned, pkgIn, pkg, rawCalls, rawRaised, validations,
                   serviceCalls, editVars, ocrVars, appVars, mapped>>

\* The rest of the call: the reply is cleaned and parsed, the mapping built
\* or the error raised
ParseReply ==
    /\ mapperPc = "replied"
    /\ mapperPc' = "idle"
    /\ LET r == map_placeholders_to_values(placeholders, reply)
       IN  /\ mapped' = Append(mapped, [reply |-> reply, asks |-> asks, result |-> r])
           /\ mapping' = IF r.raised THEN mapping ELSE r.mapping
    /\ UNCHANGED <<template, doc, fills, prevDoc, visits, placeholders, scanned,
                   pkgIn, pkg, rawCalls, rawRaised, validations, serviceCalls,
                   editVars, ocrVars, appVars, reply, asks>>

NextMapper ==
    \/ \E text \in Replies : AskCollaborator(text)
    \/ ParseReply

SpecMapper == InitMapper /\ [][NextMapper]_vars

(***************************************************************************)
(* Vocabulary of the properties.                                           *)
(***************************************************************************)
\* The paragraphs of a document: <<story, part, index>>
Locs(d) ==
    UNION { { <<s, "paras", i>> : i \in 1..Len(d.stories[s].paras) }
            \cup { <<s, "cells", i>> : i \in 1..Len(d.stories[s].cells) }
            : s \in 1..Len(d.stories) }

HasLoc(d, l) ==
    /\ l[1] \in 1..Len(d.stories)
    /\ l[3] <= Len(IF l[2] = "paras" THEN d.stories[l[1]].paras ELSE d.stories[l[1]].cells)

ParaAt(d, l) ==
    IF l[2] = "paras" THEN d.stories[l[1]].paras[l[3]] ELSE d.stories[l[1]].cells[l[3]]

\* The field names of a mapping (keys as the code compares them: stripped)
Fields(m) == { Strip(m[n].key) : n \in 1..Len(m) }

\* The value the code inserts for field k: that of the first entry naming it
ValueOf(m, k) ==
    m[CHOOSE n \in 1..Len(m) :
          Strip(m[n].key) = k /\ \A j \in 1..(n - 1) : Strip(m[j].key) # k].value

\* Field k occurs as a token (one of the four variants) in document d
OccursIn(d, k) ==
    \E l \in Locs(d) : HasLoc(d, l) /\ HasVariant(ParaText(ParaAt(d, l)), k)

\* C1 (as claimed): when every key of the mapping occurs as a token in the
\* template, then after fill_docx_template no paragraph's assembled text holds
\* a token variant of a key, and extract_placeholders reports no key.
C1_NoTokenRemains ==
    (fills = 1 /\ \A k \in Fields(mapping) : OccursIn(template, k))
    => /\ \A k \in Fields(mapping) : ~OccursIn(doc, k)
       /\ \A n \in 1..Len(extract_placeholders(doc)) :
              extract_placeholders(doc)[n] \notin Fields(mapping)

\* C2 (as claimed): a second fill_docx_template with the same mapping leaves
\* the filled document unchanged.
C2_Idempotent == fills = 2 => doc = prevDoc

Delims == {"[", "]", "{", "}"}

NoDelims(t) == \A i \in 1..Len(t) : t[i] \notin Delims

\* The visits of the last fill call made to paragraph l
VisitsAt(l) ==
    { n \in 1..Len(visits) :
        visits[n].story = l[1] /\ visits[n].part = l[2] /\ visits[n].idx = l[3] }

\* Paragraph p holds exactly one token, a variant t of field k at position i of
\* its assembled text, and no single run holds it: the token is split across runs.
SplitAloneAt(p, k, t, i) ==
    /\ Len(p) >= 2
    /\ StartsAt(ParaText(p), t, i)
    /\ NoDelims(SubSeq(ParaText(p), 1, i - 1))
    /\ NoDelims(SubSeq(ParaText(p), i + Len(t), Len(ParaText(p))))
    /\ \A r \in 1..Len(p) : ~Contains(p[r].text, t)

\* C3: a token split across the runs of a paragraph, the paragraph's only
\* token, is reported by extract_placeholders under its field name, and
\* fill_docx_template replaces it by the mapped value through the fallback
\* path: the text becomes the text around the token with the value in the
\* token's place, and no variant of the field is left.
C3_SplitTokenReplaced ==
    \A l \in Locs(template) : \A k \in Fields(mapping) : \A t \in Variants(k) :
      \A i \in 1..Len(ParaText(ParaAt(template, l))) :
        (HasLoc(template, l) /\ SplitAloneAt(ParaAt(template, l), k, t, i))
        => LET before == ParaText(ParaAt(template, l))
               after == ParaText(ParaAt(doc, l))
           IN  /\ (scanned /\ fills = 0)
                  => \E n \in 1..Len(placeholders) : placeholders[n] = k
               /\ fills >= 1
                  => /\ after = SubSeq(before, 1, i - 1) \o ValueOf(mapping, k)
                                \o SubSeq(before, i + Len(t), Len(before))
                     /\ Contains(after, ValueOf(mapping, k))
                     /\ ~HasVariant(after, k)
               /\ fills = 1
                  => /\ \E n \in VisitsAt(l) : visits[n].path = "fallback"
                     /\ \A n \in VisitsAt(l) : visits[n].path # "fast"

\* C3 witness: a token split over three runs has been replaced by a non-empty value
C3_Witness ==
    /\ fills = 1
    /\ \E l \in Locs(template) : \E k \in Fields(mapping) : \E t \in Variants(k) :
         /\ HasLoc(template, l)
         /\ Len(ParaAt(template, l)) = 3
         /\ SplitAloneAt(ParaAt(template, l), k, t, 1)
         /\ ValueOf(mapping, k) # <<>>
         /\ ParaText(ParaAt(doc, l)) = ValueOf(mapping, k)

\* C4 (as claimed): in one fill_docx_template call no paragraph is processed
\* by both passes.
C4_NeverBothPasses ==
    fills >= 1
    => \A l \in Locs(doc) :
         ~(\E n1 \in VisitsAt(l), n2 \in VisitsAt(l) :
              visits[n1].path = "fast" /\ visits[n2].path = "fallback")

\* Some run of paragraph p holds a whole token variant of a mapped field
SomeRunMatches(p, m) ==
    \E r \in 1..Len(p) : \E k \in Fields(m) : HasVariant(p[r].text, k)

\* Runs i..j of p, none holding a whole token of a mapped field, together hold
\* the variant t
SplitOver(p, m, t, i, j) ==
    /\ i < j /\ j <= Len(p)
    /\ Contains(Concat([r \in 1..(j - i + 1) |-> p[i + r - 1].text]), t)
    /\ \A r \in i..j : \A k \in Fields(m) : ~HasVariant(p[r].text, k)

\* C4 (amended): in one visit a paragraph is processed by one pass only.  For
\* a paragraph the call visits once: when a run holds a whole token of a
\* mapped field the visit takes the fast path, keeps the number of runs, and a
\* token of a mapped field split across other runs is still in the text
\* afterwards; the fallback is taken only when no run held a whole token.
C4_FastPathPriority ==
    fills >= 1
    => \A l \in Locs(prevDoc) :
         (HasLoc(prevDoc, l) /\ Cardinality(VisitsAt(l)) = 1)
         => LET before == ParaAt(prevDoc, l)
                after == ParaAt(doc, l)
                n == CHOOSE n \in VisitsAt(l) : TRUE
            IN  /\ SomeRunMatches(before, mapping)
                   => /\ visits[n].path = "fast"
                      /\ Len(after) = Len(before)
                      /\ \A k \in Fields(mapping) : \A t \in Variants(k) :
                           \A i \in 1..Len(before) : \A j \in 1..Len(before) :
                             SplitOver(before, mapping, t, i, j)
                             => Contains(ParaText(after), t)
                /\ visits[n].path = "fallback" => ~SomeRunMatches(before, mapping)

\* C4 witness: the fast path has replaced one token and left a split token of
\* another mapped field in place
C4_Witness ==
    /\ fills = 1
    /\ \E l \in Locs(prevDoc) :
         /\ HasLoc(prevDoc, l)
         /\ Cardinality(VisitsAt(l)) = 1
         /\ \A n \in VisitsAt(l) : visits[n].path = "fast"
         /\ \E i \in 1..MaxRuns : \E j \in 1..MaxRuns :
              /\ SplitOver(ParaAt(prevDoc, l), mapping, tokB, i, j)
              /\ <<"B">> \in Fields(mapping)
         /\ Contains(ParaText(ParaAt(doc, l)), tokB)
         /\ ~Contains(ParaText(ParaAt(doc, l)), tokA)

\* The text of one region: the paragraphs of (story, part), in order
RegionText(d, s, part) ==
    LET ps == IF part = "paras" THEN d.stories[s].paras ELSE d.stories[s].cells
    IN  Concat([i \in 1..Len(ps) |-> ParaText(ps[i])])

\* How many times the walk of document d comes to the paragraphs of story s
TimesWalked(d, s) ==
    Cardinality({ n \in 1..Len(Walk(d)) : Walk(d)[n].story = s /\ Walk(d)[n].part = "paras" })

\* The per-paragraph substitution applied n times
RECURSIVE Substituted(_, _, _)
Substituted(p, m, n) ==
    IF n = 0 THEN p
    ELSE Substituted(replace_paragraph_placeholders(p, m).runs, m, n - 1)

AllSingleRun(d) == \A l \in Locs(d) : Len(ParaAt(d, l)) = 1

\* C5: fill_docx_template applies the per-paragraph substitution to every body
\* paragraph, body table cell, and header and footer paragraph and cell of
\* every section; where every token lies in one run, the value of a field is
\* afterwards in the text of exactly the regions whose text held a token of
\* that field.
C5_RegionCoverage ==
    fills = 1
    => /\ \A l \in Locs(template) :
            ParaAt(doc, l) = Substituted(ParaAt(template, l), mapping,
                                         TimesWalked(template, l[1]))
       /\ AllSingleRun(template)
          => \A s \in 1..Len(template.stories) : \A part \in {"paras", "cells"} :
               \A k \in Fields(mapping) :
                 ValueOf(mapping, k) # <<>>
                 => (Contains(RegionText(doc, s, part), ValueOf(mapping, k))
                     <=> \E l \in Locs(template) :
                           /\ l[1] = s /\ l[2] = part
                           /\ HasVariant(ParaText(ParaAt(template, l)), k))

\* C5 witness: [A] in the header, [B] in the body, [C] in the footer, filled
\* with values for all three
C5_Witness ==
    /\ fills = 1
    /\ template = RegionDoc("A", "B", "C", TRUE)
    /\ Fields(mapping) = {<<"A">>, <<"B">>, <<"C">>}
    /\ RegionText(doc, 2, "paras") = <<"x", "v">>
    /\ RegionText(doc, 1, "paras") = <<"x", "w">>
    /\ RegionText(doc, 3, "paras") = <<"x", "u">>
    /\ RegionText(doc, 3, "cells") = <<"x", "u">>

\* Strictly ascending: sorted and without duplicates
StrictlyAscending(q) == \A n \in 1..(Len(q) - 1) : StrLess(q[n], q[n + 1])

\* Text t holds, from position i to j, a token "{{w}}" or "[w]" whose name w
\* has no "}" or "]" in it
CurlyAt(t, i, j) ==
    /\ i + 3 <= j /\ StartsAt(t, <<"{", "{">>, i) /\ StartsAt(t, <<"}", "}">>, j - 1)
    /\ \A n \in (i + 2)..(j - 2) : t[n] # "}"

BracketAt(t, i, j) ==
    /\ i + 1 <= j /\ t[i] = "[" /\ t[j] = "]"
    /\ \A n \in (i + 1)..(j - 1) : t[n] # "]"

RawTokenAt(data, k, i, j) ==
    \/ /\ i + 3 <= j
       /\ StartsAt(data, <<"{", "{">>, i) /\ StartsAt(data, <<"}", "}">>, j - 1)
       /\ Strip(SubSeq(data, i + 2, j - 2)) = k
    \/ /\ i + 1 <= j
       /\ data[i] = "[" /\ data[j] = "]"
       /\ Strip(SubSeq(data, i + 1, j - 1)) = k

RawTokens(data, k) ==
    { ij \in (1..Len(data)) \X (1..Len(data)) : RawTokenAt(data, k, ij[1], ij[2]) }

Count(data, c) == Cardinality({ i \in 1..Len(data) : data[i] = c })

AllValuesNonEmpty(m) == \A n \in 1..Len(m) : m[n].value # <<>>

\* Values re.sub inserts as they are: not empty, no backslash
PlainValues(m) ==
    AllValuesNonEmpty(m) /\ \A n \in 1..Len(m) : ~Contains(m[n].value, <<"\\">>)

\* The entry is a decodable XML part under word/
Eligible(e) == Head(e.name) = "word/" /\ e.name[Len(e.name)] = ".xml" /\ e.decodable

\* C6 (as claimed): in every decodable word/*.xml entry the raw-package pass
\* replaces every raw token of every mapped field, whatever the whitespace
\* around the name, by the field's value: afterwards the entry holds no raw
\* token of a mapped field, and the value stands where a token stood.
C6_RawPassReplacesAll ==
    (rawCalls = 1 /\ AllValuesNonEmpty(mapping))
    => \A n \in 1..Len(pkgIn) :
         Eligible(pkgIn[n])
         => \A k \in Fields(mapping) :
              /\ RawTokens(pkg[n].data, k) = {}
              /\ RawTokens(pkgIn[n].data, k) # {}
                 => Contains(pkg[n].data, ValueOf(mapping, k))

\* What holds of the raw-package pass: when re.sub accepts every value and
\* returns it as it is (no backslash in a value) and the values are not
\* empty, the output entry holds no raw token of a mapped field, and it holds
\* the value once more for every raw token of the field in the input entry.
RawPassReplacesPlainValues ==
    (rawCalls >= 1 /\ ~rawRaised /\ PlainValues(mapping))
    => \A n \in 1..Len(pkgIn) :
         Eligible(pkgIn[n])
         => \A k \in Fields(mapping) :
              /\ RawTokens(pkg[n].data, k) = {}
              /\ Count(pkg[n].data, ValueOf(mapping, k)[1])
                 = Count(pkgIn[n].data, ValueOf(mapping, k)[1])
                   + Cardinality(RawTokens(pkgIn[n].data, k))

\* C7: the output archive has the input's entry names in the input's order,
\* and an entry that is not under word/, or is not .xml, or cannot be decoded,
\* or holds no raw token of a mapped field, is the same in the output.
C7_RawPassFrame ==
    (rawCalls >= 1 /\ ~rawRaised)
    => /\ Len(pkg) = Len(pkgIn)
       /\ \A n \in 1..Len(pkgIn) :
            /\ pkg[n].name = pkgIn[n].name
            /\ (\/ Head(pkgIn[n].name) # "word/"
                \/ pkgIn[n].name[Len(pkgIn[n].name)] # ".xml"
                \/ ~pkgIn[n].decodable
                \/ \A k \in Fields(mapping) : RawTokens(pkgIn[n].data, k) = {})
               => pkg[n] = pkgIn[n]

\* C7 witness: a call that changed the document part and left alone the
\* entries outside word/, the media entry and the undecodable entry, each of
\* which holds a token of a mapped field
C7_Witness ==
    /\ rawCalls = 1
    /\ ~rawRaised
    /\ <<"A">> \in Fields(mapping)
    /\ pkg # pkgIn
    /\ \E n \in 1..Len(pkgIn) :
         /\ Head(pkgIn[n].name) = "docProps/" /\ pkgIn[n].data = tokA
         /\ pkg[n] = pkgIn[n]
    /\ \E n \in 1..Len(pkgIn) :
         /\ Head(pkgIn[n].name) = "word/" /\ ~pkgIn[n].decodable /\ pkgIn[n].data = tokA
         /\ pkg[n] = pkgIn[n]

\* The markup between the pieces of a paragraph's text: run and text elements
RunMarkup == {"<w:r>", "</w:r>", "<w:t>", "</w:t>", "<w:rPr>"}

\* The text of a part as its paragraphs show it: the run markup dropped
NotRunMarkup(c) == c \notin RunMarkup
VisibleText(data) == SelectSeq(data, NotRunMarkup)

\* C8 (as claimed): a token of a mapped field whose pieces lie in different run
\* elements of a word/*.xml part is replaced by the raw-package pass.
C8_SplitTokenReplacedRaw ==
    (rawCalls = 1 /\ ~rawRaised /\ PlainValues(mapping))
    => \A n \in 1..Len(pkgIn) :
         Eligible(pkgIn[n])
         => \A k \in Fields(mapping) : \A t \in Variants(k) :
              Contains(VisibleText(pkgIn[n].data), t)
              => /\ ~Contains(VisibleText(pkg[n].data), t)
                 /\ Contains(VisibleText(pkg[n].data), ValueOf(mapping, k))

\* C9: called without a credential (api_key None or empty) the validator
\* returns status "error", at least one issue and no suggestions, without
\* calling the external service; two such calls on the same inputs return the
\* same result.
C9_ValidatorFallback ==
    /\ \A n \in 1..Len(validations) :
         Falsy(validations[n].api_key)
         => /\ validations[n].result.status = "error"
            /\ validations[n].result.issues # <<>>
            /\ validations[n].result.suggested_mapping = <<>>
            /\ validations[n].result.suggested_text_edits = <<>>
    /\ serviceCalls <= Cardinality({ n \in 1..Len(validations) :
                                       ~Falsy(validations[n].api_key) })
    /\ \A i \in 1..Len(validations) : \A j \in 1..Len(validations) :
         (/\ Falsy(validations[i].api_key) /\ Falsy(validations[j].api_key)
          /\ validations[i].doc_bytes = validations[j].doc_bytes
          /\ validations[i].mapping = validations[j].mapping)
         => validations[i].result = validations[j].result

\* C9 witness: two calls without a credential, one with None and one with the
\* empty string, on a saved document
C9_Witness ==
    /\ Len(validations) = 2
    /\ validations[1].api_key = "None"
    /\ validations[2].api_key = ""
    /\ validations[1].doc_bytes # <<>>
    /\ validations[2].result.status = "error"
    /\ serviceCalls = 0

\* The trimmed key with one layer of "{{" "}}" cut off, if it has one
CurlyCut(k) ==
    IF Wrapped(Strip(k), <<"{", "{">>, <<"}", "}">>)
    THEN Strip(SubSeq(Strip(k), 3, Len(Strip(k)) - 2)) ELSE Strip(k)

BracketCut(k) ==
    IF Wrapped(Strip(k), <<"[">>, <<"]">>)
    THEN Strip(SubSeq(Strip(k), 2, Len(Strip(k)) - 1)) ELSE Strip(k)

IsWrapped(k) == Wrapped(k, <<"{", "{">>, <<"}", "}">>) \/ Wrapped(k, <<"[">>, <<"]">>)

\* The keys of a dict
Keys(d) == { d[n].key : n \in 1..Len(d) }

\* C11 (as claimed): every edit key is normalised by exactly one of three
\* cases: wrapped in "{{" "}}": those cut and trimmed; else wrapped in "[" "]":
\* those cut and trimmed; else the trimmed key.  At most one layer is removed.
C11_OneOfThreeCases ==
    rawCalls >= 1
    => Keys(normalized)
       = { IF Wrapped(Strip(k), <<"{", "{">>, <<"}", "}">>) THEN CurlyCut(k)
           ELSE BracketCut(k) : k \in Keys(edits) }

\* C11 (amended): the two tests are applied one after the other.  The trimmed
\* key loses one layer of "{{" "}}" if it has one, and what is left loses one
\* layer of "[" "]" if it has one: so "{{[X]}}" gives "X", while "[[X]]" gives
\* "[X]" and "[{{X}}]" gives "{{X}}".  Each entry's value is kept for its
\* normalised key (the last entry wins when two keys normalise alike).
C11_TwoTestsInTurn ==
    rawCalls >= 1
    => /\ Keys(normalized) = { BracketCut(CurlyCut(k)) : k \in Keys(edits) }
       /\ \A n \in 1..Len(normalized) :
            \E m \in 1..Len(edits) :
              /\ BracketCut(CurlyCut(edits[m].key)) = normalized[n].key
              /\ edits[m].value = normalized[n].value
              /\ \A j \in (m + 1)..Len(edits) :
                   BracketCut(CurlyCut(edits[j].key)) # normalized[n].key

\* C11 witness: the key "{{[A]}}" has lost both layers
C11_Witness ==
    /\ rawCalls = 1
    /\ Keys(edits) = { <<"{", "{">> \o tokA \o <<"}", "}">> }
    /\ Keys(normalized) = { <<"A">> }

\* C12 (as claimed): the mapping handed to the raw pass has only bare keys: no
\* key is wrapped in "{{" "}}" or in "[" "]", none has leading or trailing
\* whitespace.
C12_BareKeys ==
    rawCalls >= 1
    => \A k \in Keys(normalized) : ~IsWrapped(k) /\ Strip(k) = k

\* C12 (amended): no key of the mapping handed to the raw pass has leading or
\* trailing whitespace, and a key is wrapped in "{{" "}}" or "[" "]" only when
\* an edit key carried more than one layer of delimiters.
C12_BareUnlessNested ==
    rawCalls >= 1
    => \A k \in Keys(normalized) :
         /\ Strip(k) = k
         /\ IsWrapped(k)
            => \E e \in Keys(edits) :
                 /\ IsWrapped(Strip(e))
                 /\ IsWrapped(IF Wrapped(Strip(e), <<"{", "{">>, <<"}", "}">>)
                              THEN CurlyCut(e) ELSE BracketCut(e))

\* C12 witness: keys given bare, with blanks, and wrapped in either syntax
\* have all come out as the bare name
C12_Witness ==
    /\ rawCalls = 1
    /\ Keys(edits) = { <<" ", "{", "{", " ", "A", " ", "}", "}">>, tokB }
    /\ Keys(normalized) = { <<"A">>, <<"B">> }

\* The positions of the log holding an event of the given kinds
Events(kinds) == { i \in 1..Len(ocrLog) : ocrLog[i].kind \in kinds }

Blank(outcome) == outcome \in {"whitespace", "empty"}

\* C13: extract_text_from_image tries a local fallback only after all
\* max_attempts remote attempts were made and none gave text, pytesseract
\* before the CLI and the CLI only after pytesseract gave blank text; it raises
\* only after that and after both fallbacks gave blank text, and the message
\* raised names tesseract-ocr and pytesseract.
C13_FallbackOrdering ==
    /\ \A i \in Events({"pytesseract", "cli"}) :
         /\ Cardinality({ j \in Events({"remote"}) : j < i }) = max_attempts
         /\ \A j \in Events({"remote"}) : j < i /\ ocrLog[j].outcome # "text"
    /\ \A i \in Events({"cli"}) :
         \E j \in Events({"pytesseract"}) : j < i /\ Blank(ocrLog[j].outcome)
    /\ ocrPc = "raised"
       => /\ Cardinality(Events({"remote"})) = max_attempts
          /\ \E i \in Events({"pytesseract"}) : \E j \in Events({"cli"}) :
               i < j /\ Blank(ocrLog[i].outcome) /\ Blank(ocrLog[j].outcome)
          /\ {"tesseract-ocr", "pytesseract"} \subseteq ocrResult.names
          /\ ocrResult.cause = last_exc
    /\ ocrPc \in {"idle", "remote", "pytesseract", "cli", "returned"}
       => ocrResult \in {"None", "remote text", "local text"}

\* C13 witness: three remote attempts failed (two raised, one was empty),
\* both fallbacks gave blank text, and the error was raised
C13_Witness ==
    /\ ocrPc = "raised"
    /\ Len(ocrLog) = 6
    /\ ocrLog[1].outcome = "raise" /\ ocrLog[2].kind = "sleep"
    /\ ocrLog[3].outcome = "empty_text"
    /\ ocrLog[4].outcome = "raise"
    /\ ocrLog[5].kind = "pytesseract" /\ ocrLog[5].outcome = "whitespace"
    /\ ocrLog[6].kind = "cli" /\ ocrLog[6].outcome = "empty"

\* C20 (as claimed): at most 3 remote attempts are made; the call returns at
\* the first attempt that gives text; and before every re-attempt, whether the
\* attempt before it raised or gave an empty response, it sleeps
\* 1.5^attempt seconds.
C20_RetryBudget ==
    /\ Cardinality(Events({"remote"})) <= 3
    /\ \A i \in Events({"remote"}) :
         ocrLog[i].outcome = "text"
         => i = Len(ocrLog) /\ ocrPc = "returned" /\ ocrResult = "remote text"
    /\ \A i \in Events({"remote"}) :
         ocrLog[i].attempt >= 2
         => /\ ocrLog[i - 1].kind = "sleep"
            /\ ocrLog[i - 1].delay * Pow(2, ocrLog[i].attempt - 1)
               = 1000 * Pow(3, ocrLog[i].attempt - 1)

\* The document part of a saved package
DocumentPart(a) ==
    a[CHOOSE n \in 1..Len(a) : a[n].name = <<"word/", "document", ".xml">>].data

\* C16: save_document serialises the tree and, with a non-empty mapping,
\* returns the raw-package pass applied to the serialised bytes, the tree left
\* as it was; with no or an empty mapping it returns the serialised bytes; and
\* when the raw-package pass raises it returns the serialised bytes.
C16_SaveOrdering ==
    pkgIn # <<>>
    => /\ pkgIn = Serialize(doc)
       /\ mapping = <<>> => (pkg = pkgIn /\ rawCalls = 0)
       /\ (mapping # <<>> /\ ~rawRaised)
          => /\ rawCalls = 1
             /\ pkg = xml_replace_in_docx_bytes(pkgIn, mapping).pkg
             /\ \A k \in Fields(mapping) :
                  (/\ doc.stories[1].shapes # <<>>
                   /\ RawTokens(DocumentPart(pkgIn), k) # {}
                   /\ PlainValues(mapping))
                  => /\ Contains(DocumentPart(pkg), ValueOf(mapping, k))
                     /\ DocumentPart(pkg) # DocumentPart(pkgIn)
                     /\ RawTokens(DocumentPart(Serialize(doc)), k) # {}
       /\ rawRaised => (pkg = pkgIn /\ mapping # <<>>)

\* C16 witness: the raw pass raised on a value re.sub rejects, and the saved
\* bytes are the serialised tree with its token
C16_Witness ==
    /\ pkgIn # <<>>
    /\ rawRaised
    /\ pkg = Serialize(doc)
    /\ Contains(DocumentPart(pkg), tokA)
    /\ <<"A">> \in Fields(mapping)

\* Run r of paragraph p holds a whole token variant of a mapped field
RunMatches(p, m, r) == \E k \in Fields(m) : HasVariant(p[r].text, k)

\* What C17 says of a paragraph before and after: same number of runs, every
\* run its formatting, a run without a token its text, a run with tokens the
\* text the replacements of every entry leave, which for a run that is one
\* token is the value.
StructureKept(before, after, m) ==
    /\ Len(after) = Len(before)
    /\ \A r \in 1..Len(before) :
         /\ after[r].fmt = before[r].fmt
         /\ ~RunMatches(before, m, r) => after[r].text = before[r].text
         /\ RunMatches(before, m, r)
            => /\ after[r].text = RunLoop(before[r].text, FALSE, m, 1).text
               /\ \A k \in Fields(m) :
                    before[r].text \in Variants(k) => after[r].text = ValueOf(m, k)

\* C17 (as claimed): after a fill_docx_template call, every paragraph in which
\* a run held a whole token of a mapped field has the same number of runs in
\* the same order, every run its formatting, every run without a token its
\* text, and the tokens inside the other runs replaced.
C17_FastPathKeepsStructure ==
    fills >= 1
    => \A l \in Locs(prevDoc) :
         (HasLoc(prevDoc, l) /\ SomeRunMatches(ParaAt(prevDoc, l), mapping))
         => StructureKept(ParaAt(prevDoc, l), ParaAt(doc, l), mapping)

\* C17 (amended): the same of every paragraph the call visits once.
C17_FastPathKeepsStructurePerVisit ==
    fills >= 1
    => \A l \in Locs(prevDoc) :
         (/\ HasLoc(prevDoc, l) /\ Cardinality(VisitsAt(l)) = 1
          /\ SomeRunMatches(ParaAt(prevDoc, l), mapping))
         => StructureKept(ParaAt(prevDoc, l), ParaAt(doc, l), mapping)

\* C17 witness: a three-run paragraph, first run formatted, whose last run was
\* a token and now is the value, the other runs as they were
C17_Witness ==
    /\ fills = 1
    /\ \E l \in Locs(prevDoc) :
         /\ HasLoc(prevDoc, l) /\ Cardinality(VisitsAt(l)) = 1
         /\ LET before == ParaAt(prevDoc, l)
                after == ParaAt(doc, l)
            IN  /\ Len(before) = 3 /\ Len(after) = 3
                /\ before[1].fmt = RichFmt /\ after[1].fmt = RichFmt
                /\ before[3].text = tokA /\ after[3].text = <<"v">>
                /\ ~RunMatches(before, mapping, 1) /\ after[1].text = before[1].text
                /\ ~RunMatches(before, mapping, 2) /\ after[2].text = before[2].text

\* The attributes the fallback carries over
Carried(f) == <<f.bold, f.italic, f.underline, f.style, f.name, f.size, f.color>>

NoTokenIn(p, m) == \A k \in Fields(m) : ~HasVariant(ParaText(p), k)

\* C19: a paragraph whose assembled text holds no token variant of any mapped
\* field is, after each fill_docx_template call, exactly as it was before the
\* call, and one that held none in the template is after any number of calls
\* exactly as in the template: same runs, texts and formatting.
C19_UntouchedParagraphs ==
    fills >= 1
    => \A l \in Locs(prevDoc) :
         HasLoc(prevDoc, l)
         => /\ NoTokenIn(ParaAt(prevDoc, l), mapping)
               => /\ ParaAt(doc, l) = ParaAt(prevDoc, l)
                  /\ \A n \in VisitsAt(l) : visits[n].path = "none"
            /\ NoTokenIn(ParaAt(template, l), mapping)
               => ParaAt(doc, l) = ParaAt(template, l)

\* C19 witness: after two calls a three-run paragraph with a formatted first
\* run and the text of a token of an unmapped field is as in the template
C19_Witness ==
    /\ fills = 2
    /\ <<"A">> \in Fields(mapping) /\ <<"B">> \notin Fields(mapping)
    /\ \E l \in Locs(template) :
         /\ HasLoc(template, l)
         /\ Len(ParaAt(template, l)) = 3
         /\ ParaAt(template, l)[1].fmt = RichFmt
         /\ ParaText(ParaAt(template, l)) = <<"[", "B", "]", "A">>
         /\ ParaAt(doc, l) = ParaAt(template, l)
         /\ VisitsAt(l) # {}

\* The calls of the current run, in order
RunSteps == SelectSeq(steps, LAMBDA e : e.run = runs)

RequiredSteps == {"pdf", "ocr", "load", "map"}

\* An earlier run stored a document
EarlierRunSaved == \E n \in 1..Len(steps) : steps[n].run < runs /\ steps[n].step = "save"

\* C14: when PDF conversion, OCR, template loading or field mapping raises in
\* a processing run, that call is the run's last (no fill, cleanup, save or
\* validation follows), the error box for it is on the page, final_docx is
\* unset and the download is not offered.
C14_RequiredStepAborts ==
    \A n \in 1..Len(RunSteps) :
        (RunSteps[n].step \in RequiredSteps /\ RunSteps[n].raised)
        => /\ n = Len(RunSteps)
           /\ appPc = "idle"
           /\ \A j \in 1..Len(RunSteps) :
                RunSteps[j].step \notin {"fill", "cleanup", "save", "validate"}
           /\ shown # <<>>
           /\ shown[Len(shown)] = [box |-> "error", step |-> RunSteps[n].step]
           /\ final_docx = <<>>
           /\ ~DownloadOffered

\* C14 witness: the first run stored a document, the second run's mapping
\* raised after its OCR and loading, and nothing is offered
C14_Witness ==
    /\ runs = 2
    /\ EarlierRunSaved
    /\ Len(RunSteps) = 4
    /\ RunSteps[4] = [run |-> 2, step |-> "map", raised |-> TRUE]
    /\ ~DownloadOffered

\* The call of `step` in the current run raised
RaisedInRun(step) ==
    \E n \in 1..Len(RunSteps) : RunSteps[n].step = step /\ RunSteps[n].raised

DoneInRun(step) == \E n \in 1..Len(RunSteps) : RunSteps[n].step = step

NoErrorBox == \A n \in 1..Len(shown) : shown[n].box # "error"

\* C15: when the cleanup call raised, a warning box is shown, the run goes on
\* to the save, and the stored final document is the saved placeholder-filled
\* tree (the template filled with the mapping, no line of the cleanup in it);
\* when the validation raised or gave status "error", the stored final
\* document is still the saved one and offered, no error box is shown, and
\* the failure is in the validation record.
C15_OptionalStepFailure ==
    /\ RaisedInRun("cleanup")
       => /\ [box |-> "warning", step |-> "cleanup"] \in { shown[n] : n \in 1..Len(shown) }
          /\ NoErrorBox
          /\ appPc \in {"save", "validate", "idle"}
          /\ doc = fill_docx_template(template, mapping).doc
          /\ appPc # "save"
             => /\ DoneInRun("save")
                /\ DownloadOffered
                /\ final_docx = save_document(fill_docx_template(template, mapping).doc,
                                              mapping).final
    /\ (DoneInRun("validate") /\ (RaisedInRun("validate") \/ validation[1].status = "error"))
       => /\ DownloadOffered
          /\ final_docx = pkg
          /\ NoErrorBox
          /\ appPc = "idle"
          /\ validation # <<>> /\ validation[1].status = "error"
          /\ RaisedInRun("validate")
             => validation = <<[status |-> "error", issues |-> <<"str(e)">>]>>

\* C15 witness: in one run the cleanup raised and then the validation raised;
\* the document with the value in place of the token is stored and offered
C15_Witness ==
    /\ RaisedInRun("cleanup")
    /\ RaisedInRun("validate")
    /\ appPc = "idle"
    /\ DownloadOffered
    /\ mapping = << E(<<"A">>, <<"v">>) >>
    /\ doc.stories[1].paras[1][1].text = <<"v">>
    /\ Contains(DocumentPart(final_docx), <<"v">>)
    /\ validation[1].status = "error"

\* C23 (as claimed): every name extract_placeholders returns is a non-empty
\* string; a token with an empty or whitespace-only name adds no entry.
C23_NamesNonEmpty ==
    scanned => \A n \in 1..Len(placeholders) : placeholders[n] # <<>>

\* Paragraph p holds exactly one token, recognised by the scanner for field k,
\* and the token lies inside run r
OnlyTokenInRun(p, k, r) ==
    /\ Len(placeholder_pattern_findall(ParaText(p))) = 1
    /\ Len(placeholder_pattern_findall(p[r].text)) = 1
    /\ ScanText(p[r].text) = {k}

\* C24 (as claimed): a token the scanner recognises for a field of the
\* mapping, lying wholly inside one run and the only token of its paragraph,
\* is replaced by fill_docx_template: the scanner no longer finds the field in
\* the paragraph, whose text has the value where the token was.
C24_ScannerEngineAgree ==
    fills = 1
    => \A l \in Locs(template) : \A k \in Fields(mapping) :
         HasLoc(template, l)
         => \A r \in 1..Len(ParaAt(template, l)) :
              OnlyTokenInRun(ParaAt(template, l), k, r)
              => /\ k \notin ScanText(ParaText(ParaAt(doc, l)))
                 /\ Len(ParaText(ParaAt(doc, l))) < Len(ParaText(ParaAt(template, l)))

\* The raw pass's loop over the mapping with each value put in as it is, as
\* str.replace does in the structural engine
RECURSIVE LiteralLoop(_, _, _)
LiteralLoop(text, m, n) ==
    IF n > Len(m) THEN text
    ELSE LET k == Strip(m[n].key)
             c == SubFrom(text, <<"{", "{">>, <<"}", "}">>, k, m[n].value, 1)
             b == SubFrom(c, <<"[">>, <<"]">>, k, m[n].value, 1)
         IN  LiteralLoop(b, m, n + 1)

\* C25 (as claimed): for every mapping value, a backslash in it or not, the
\* raw-package pass completes without error and every decodable XML entry
\* under word/ has, in place of each matched token, the value string
\* character for character.
C25_LiteralInsertion ==
    rawCalls = 1
    => /\ ~rawRaised
       /\ \A n \in 1..Len(pkgIn) :
            Eligible(pkgIn[n]) => pkg[n].data = LiteralLoop(pkgIn[n].data, mapping, 1)

\* The mapping m with its entries iterated in every order
Orders(m) ==
    { [n \in 1..Len(m) |-> m[p[n]]] : p \in Permutations(1..Len(m)) }

\* The assembled texts of the paragraphs of d
Texts(d) == [l \in { l \in Locs(d) : HasLoc(d, l) } |-> ParaText(ParaAt(d, l))]

\* C22 (as claimed): the text fill_docx_template produces, and the package
\* the raw-package pass produces, are the same for every order in which the
\* fields of the mapping are iterated.
C22_OrderIndependent ==
    /\ fills >= 1
       => \A m2 \in Orders(mapping) :
            Texts(fill_docx_template(prevDoc, m2).doc) = Texts(doc)
    /\ (pkgIn # <<>> /\ ~rawRaised)
       => \A m2 \in Orders(mapping) : xml_replace_in_docx_bytes(pkgIn, m2).pkg = pkg

\* The reply cannot be read as an object: json.loads rejects the cleaned
\* text, or gives a value that is no object
NotTheExpectedStructure(text) == json_loads(response_text(text)) # "object"

\* C21 (as claimed): every call of map_placeholders_to_values whose reply is
\* not parseable as an object raised an error whose message holds the reply
\* text, and every call asked the collaborator exactly once.
C21_ParseErrorSurfaced ==
    \A n \in 1..Len(mapped) :
        /\ mapped[n].asks = n
        /\ NotTheExpectedStructure(mapped[n].reply)
           => /\ mapped[n].result.raised
              /\ Contains(mapped[n].result.message, response_text(mapped[n].reply))

====
